---------------------------- MODULE Spec2Model ----------------------------
(***************************************************************************)
(* chatlib: the dual-store embedding engine of src/chatlib/vectors.py.     *)
(*                                                                         *)
(* Embedding.search and Embedding.store work on two external stores: the   *)
(* Pinecone index (module global `index`) and the MongoDB database, which  *)
(* vectors.py reaches through the module global `mongo`.                   *)
(*                                                                         *)
(* vectors.py gets its globals from `from .common import *` (line 11).     *)
(* common.py binds os, re, json, logging, dt, Path, getLogger, ObjectId,   *)
(* db, logger and MongoMapper (common.py lines 10-23) and has no __all__;  *)
(* it binds neither `mongo` nor `openai_client`, and vectors.py assigns    *)
(* neither.  Every other module reaches the database as db.mongo           *)
(* (common.py:48, llm.py:85, convo.py:80).  So in the code as it stands    *)
(* the first evaluation of `mongo` in vectors.py raises NameError.         *)
(*                                                                         *)
(* The variable mongo holds what the name is bound to: nothing binds it,   *)
(* so it is "unbound" in every state of every specification here.          *)
(*                                                                         *)
(* Scores are cosine similarities in thousandths (0.4 is 400).             *)
(***************************************************************************)
EXTENDS Integers, Sequences, FiniteSets, TLC

VARIABLES
    mongo,        \* binding of the module global `mongo`: "unbound" in every state
    exists,       \* whether the service has an index of the name PINECONE_INDEX_NAME
    pinecone,     \* the Pinecone index: set of [ns, id, values, metadata]
    embeddings,   \* mongo.embeddings: set of [_id, vector, table, obj_id]
    collections,  \* mongo[table], the owning collections: table -> set of [_id, name]
    nextOid,      \* the next ObjectId the database generates
    ncalls,       \* search and store calls made so far (bounded by MaxCalls)
    nexternal,    \* external deletions made so far (bounded by MaxExternal)
    prev,         \* the call before `last` where the two are compared, else NoCall
    last,         \* the most recent call: its arguments and what it did
    procs,        \* callers running store or search one backend call at a time
    llm,          \* the most recent call of chatlib.llm: its arguments and what it did
    txt,          \* the text given to clean_text and what it returned
    convo,        \* chatlib.convo: the actor registry, the collections it writes and the objects held
    asst,         \* a tools.Assistant: its tools, and the run it completes its thread with
    ctx           \* a context.Context: its id maps and counter, and the last call on it

vars == <<mongo, exists, pinecone, embeddings, collections, nextOid, ncalls, nexternal, prev, last,
          procs, llm, txt, convo, asst, ctx>>

\* The state of the parts of the library a call of the engine does not touch.
elsewhere == <<procs, llm, txt, convo, asst, ctx>>

stores == <<pinecone, embeddings, collections>>

----------------------------------------------------------------------------
(* Bounds of the model *)

\* search and store calls in one behaviour.
MaxCalls == 2

\* Deletions made behind the engine's back in one behaviour.
MaxExternal == 2

\* How many arguments of one search (vector, namespace, k, filter, cutoff,
\* failing backend) differ from the plain call at once.
MaxVaried == 2

----------------------------------------------------------------------------
(* Values *)

\* Python's None for string-valued arguments (filter, metadata, namespace).
None == "None"

\* A Python value that is None or a list: the vector of an Embedding.
PyNone == [isNone |-> TRUE, v |-> <<>>]

PyList(s) == [isNone |-> FALSE, v |-> s]

\* Python truthiness of None or a list: None and [] are falsy.
Truthy(x) == ~x.isNone /\ Len(x.v) > 0

\* An optional value as a sequence: <<>> is None, <<x>> is x.
Nothing == <<>>

Some(x) == <<x>>

Tables == {"widgets", "gadgets"}

Namespaces == Tables

Vectors == {<<1, 0>>, <<1, 1>>, <<0, 1>>}

\* search(..., k=10, ...)
DefaultK == 10

\* search(..., cutoff=0.4), in thousandths
DefaultCutoff == 400

Range(s) == {s[i] : i \in 1..Len(s)}

----------------------------------------------------------------------------
(* The Pinecone index: metric="cosine" *)

Dot(u, v) == u[1] * v[1] + u[2] * v[2]

\* The integer square root of n, for 0 <= lo <= sqrt(n) < hi, by bisection.
RECURSIVE ISqrtIn(_, _, _)
ISqrtIn(n, lo, hi) ==
    IF hi - lo <= 1 THEN lo
    ELSE LET mid == (lo + hi) \div 2
         IN  IF mid * mid <= n THEN ISqrtIn(n, mid, hi) ELSE ISqrtIn(n, lo, mid)

\* For n <= 1000000: a squared cosine in millionths.
ISqrt(n) == ISqrtIn(n, 0, 1001)

\* Cosine similarity of two non-zero vectors, in thousandths, rounded towards 0.
Cosine(u, v) ==
    LET d == Dot(u, v)
        m == ISqrt((1000000 * d * d) \div (Dot(u, u) * Dot(v, v)))
    IN  IF d >= 0 THEN m ELSE 0 - m

\* The score the index gives entry e for the query vector q.
Score(q, e) == Cosine(q, e.values)

\* str(ObjectId): the 24-digit hexadecimal string of an ObjectId.
Str(oid) == [hex |-> oid]

\* ObjectId(x) for x a string written by Str.
ObjectIdOfStr(s) == s.hex

\* ObjectId(x) for the optional obj_id of a record: ObjectId(None) generates a
\* new identifier, which no stored document carries (0 is never generated).
ObjectIdOfOpt(x) == IF x = Nothing THEN 0 ELSE x[1]

\* The entries a query looks at: the namespace's, restricted by the metadata filter.
Candidates(idx, ns, filter) ==
    {e \in idx : e.ns = ns /\ (filter = None \/ e.metadata = filter)}

\* The candidates no other candidate outscores.
Best(cands, q) == {e \in cands : \A o \in cands : Score(q, e) >= Score(q, o)}

\* The rankings of the k best of cands by descending score: the index breaks
\* ties in an order of its own choosing.
RECURSIVE TopK(_, _, _)
TopK(cands, q, k) ==
    IF k = 0 \/ cands = {} THEN {<<>>}
    ELSE UNION {{<<e>> \o s : s \in TopK(cands \ {e}, q, k - 1)} : e \in Best(cands, q)}

\* index.query(namespace, vector, filter, top_k): the top_k candidates by
\* descending score.
QueryResponses(idx, ns, q, filter, k) == TopK(Candidates(idx, ns, filter), q, k)

\* results.matches: each match carries the entry's id and its score.
Matches(q, s) == [i \in 1..Len(s) |-> [id |-> s[i].id, score |-> Score(q, s[i])]]

\* index.delete(ids, namespace): the named entries leave that namespace.
IndexDelete(idx, ids, ns) == {e \in idx : ~(e.ns = ns /\ e.id \in Range(ids))}

\* index.upsert(namespace, vectors): the entry replaces one with the same id.
IndexUpsert(idx, ns, entry) ==
    {e \in idx : ~(e.ns = ns /\ e.id = entry.id)}
        \cup {[ns |-> ns, id |-> entry.id, values |-> entry.values, metadata |-> entry.metadata]}

----------------------------------------------------------------------------
(* The MongoDB database *)

\* collection.find_one({"_id": oid}): the document, or None.
FindById(coll, oid) ==
    IF \E d \in coll : d._id = oid
    THEN Some(CHOOSE d \in coll : d._id = oid)
    ELSE Nothing

\* collection.find_one(info): the first document, in insertion order, whose
\* fields equal info's.
FindByInfo(coll, info) ==
    LET hits == {d \in coll : d.name = info[1]}
    IN  IF hits = {} THEN Nothing
        ELSE Some(CHOOSE d \in hits : \A o \in hits : d._id <= o._id)

----------------------------------------------------------------------------
(* Embedding.__init__ and Embedding.search *)

\* Embedding(text=None, vector=...): self.vector stays None unless the
\* vector argument is truthy.
EmbeddingInit(vector) == IF Truthy(vector) THEN vector ELSE PyNone

\* Deviation: a match scoring exactly the cutoff is kept (>= for >).
AboveCutoffInclusive(matches, cutoff) == SelectSeq(matches, LAMBDA r : r.score >= cutoff)

\* `if r.score > cutoff`: the matches the comprehension keeps, in order.
AboveCutoff(matches, cutoff) == SelectSeq(matches, LAMBDA r : r.score > cutoff)

\* (r.id, mongo.embeddings.find_one({"_id": ObjectId(r.id)})) for each kept match.
LookupRecords(kept, embs) ==
    [i \in 1..Len(kept) |->
        [id |-> kept[i].id, x |-> FindById(embs, ObjectIdOfStr(kept[i].id))]]

\* [x[0] for x in objs if not x[1]]
LostOf(objs) ==
    LET gone == SelectSeq(objs, LAMBDA o : o.x = Nothing)
    IN  [i \in 1..Len(gone) |-> gone[i].id]

\* [x for x in objs if x[1]]
FoundOf(objs) == SelectSeq(objs, LAMBDA o : o.x # Nothing)

\* (rid, mongo[x['table']].find_one({"_id": ObjectId(x['obj_id'])})) for each record found.
LookupOwners(found, colls) ==
    [i \in 1..Len(found) |->
        [id |-> found[i].id,
         x  |-> FindById(colls[found[i].x[1].table], ObjectIdOfOpt(found[i].x[1].obj_id))]]

\* [x[1] for x in objs if x[1]]: the documents, in the order of their matches.
DocsOf(objs) ==
    LET found == FoundOf(objs)
    IN  [i \in 1..Len(found) |-> found[i].x[1]]

\* One "find_one" call per element of s.
CallsFor(s, name) == [i \in 1..Len(s) |-> name]

\* The body of search after index.query has answered with `matches`.
\* bound: what the name mongo is bound to; fail: the backend call that is
\* unavailable during this search (None: every call succeeds).
SearchResolve(matches, ns, cutoff, fail, bound, idx, embs, colls) ==
    LET kept   == AboveCutoff(matches, cutoff)
        objs1  == LookupRecords(kept, embs)
        lost1  == LostOf(objs1)
        found1 == FoundOf(objs1)
        objs2  == LookupOwners(found1, colls)
        lost   == lost1 \o LostOf(objs2)
        docs   == DocsOf(objs2)
        calls2 == <<"index.query">> \o CallsFor(kept, "embeddings.find_one")
        calls3 == calls2 \o CallsFor(found1, "table.find_one")
        raise(kind, calls) ==
            [outcome |-> kind, result |-> <<>>, lost |-> <<>>, calls |-> calls, index |-> idx]
    IN  IF kept # <<>> /\ bound = "unbound"
          THEN raise("NameError", <<"index.query">>)
        ELSE IF kept # <<>> /\ fail = "embeddings.find_one"
          THEN raise("BackendError", <<"index.query", "embeddings.find_one">>)
        ELSE IF found1 # <<>> /\ fail = "table.find_one"
          THEN raise("BackendError", calls2 \o <<"table.find_one">>)
        ELSE IF lost # <<>> /\ fail = "index.delete"
          THEN [outcome |-> "BackendError", result |-> <<>>, lost |-> lost,
                calls |-> calls3 \o <<"index.delete">>, index |-> idx]
        ELSE IF lost # <<>>
          THEN [outcome |-> "returned", result |-> docs, lost |-> lost,
                calls |-> calls3 \o <<"index.delete">>, index |-> IndexDelete(idx, lost, ns)]
        ELSE [outcome |-> "returned", result |-> docs, lost |-> lost,
              calls |-> calls3, index |-> idx]

\* What index.query can answer for this search: nothing when search raises
\* before the call or the call itself fails.
SearchResponses(self, ns, k, filter, fail, idx) ==
    IF ~Truthy(self) \/ fail = "index.query"
    THEN {<<>>}
    ELSE {Matches(self.v, s) : s \in QueryResponses(idx, ns, self.v, filter, k)}

\* Deviation: the index is queried before the vector is looked at.
SearchOutcomeQueryFirst(self, ns, cutoff, fail, matches, bound, idx, embs, colls) ==
    IF fail = "index.query"
      THEN [outcome |-> "BackendError", result |-> <<>>, lost |-> <<>>,
            calls |-> <<"index.query">>, index |-> idx]
    ELSE IF ~Truthy(self)
      THEN [outcome |-> "ValueError", result |-> <<>>, lost |-> <<>>,
            calls |-> <<"index.query">>, index |-> idx]
    ELSE SearchResolve(matches, ns, cutoff, fail, bound, idx, embs, colls)

\* Embedding.search(pinecone_namespace, k, filter, cutoff) given the answer of index.query.
SearchOutcome(self, ns, cutoff, fail, matches, bound, idx, embs, colls) ==
    IF ~Truthy(self)
      THEN [outcome |-> "ValueError", result |-> <<>>, lost |-> <<>>, calls |-> <<>>,
            index |-> idx]
    ELSE IF fail = "index.query"
      THEN [outcome |-> "BackendError", result |-> <<>>, lost |-> <<>>,
            calls |-> <<"index.query">>, index |-> idx]
    ELSE SearchResolve(matches, ns, cutoff, fail, bound, idx, embs, colls)

----------------------------------------------------------------------------
(* Embedding.store *)

\* collection.insert_one(doc): the collection with the new document added.
InsertOne(coll, doc) == coll \cup {doc}

\* `if metadata is None: metadata = {}`
MetadataOrEmpty(metadata) == IF metadata = None THEN "{}" ELSE metadata

\* `if pinecone_namespace is None: pinecone_namespace = table`
NamespaceOrTable(ns, table) == IF ns = None THEN table ELSE ns

\* Embedding.store(table, pinecone_namespace, id, info, metadata).
\* id, info: optional (Nothing is None).  fail: the backend call that is
\* unavailable during this store (None: every call succeeds).
\* The result holds the stores as the call leaves them.
StoreOutcome(self, table, nsArg, idArg, info, metadata, fail, bound, idx, embs, colls, oid) ==
    LET ns       == NamespaceOrTable(nsArg, table)
        find     == IF info # Nothing THEN FindByInfo(colls[table], info) ELSE Nothing
        inserts  == info # Nothing /\ find = Nothing
        newDoc   == [_id |-> oid, name |-> info[1]]
        id       == IF info = Nothing THEN idArg
                    ELSE IF inserts THEN Some(oid) ELSE Some(find[1]._id)
        colls1   == IF inserts THEN [colls EXCEPT ![table] = InsertOne(@, newDoc)] ELSE colls
        oid1     == IF inserts THEN oid + 1 ELSE oid
        obj      == [_id |-> oid1, vector |-> self, table |-> table, obj_id |-> id]
        entry    == [id |-> Str(oid1), values |-> self.v, metadata |-> MetadataOrEmpty(metadata)]
        calls1   == IF info = Nothing THEN <<>>
                    ELSE IF inserts THEN <<"table.find_one", "table.insert_one">>
                    ELSE <<"table.find_one">>
        out(kind, ret, calls, i, e, c, o) ==
            [outcome |-> kind, ret |-> ret, obj_id |-> id, ns |-> ns, inserted |-> c # colls,
             calls |-> calls, index |-> i, embeddings |-> e, collections |-> c, nextOid |-> o]
    IN  IF bound = "unbound"
          THEN out("NameError", Nothing, <<>>, idx, embs, colls, oid)
        ELSE IF info # Nothing /\ fail = "table.find_one"
          THEN out("BackendError", Nothing, <<"table.find_one">>, idx, embs, colls, oid)
        ELSE IF inserts /\ fail = "table.insert_one"
          THEN out("BackendError", Nothing, calls1, idx, embs, colls, oid)
        ELSE IF fail = "embeddings.insert_one"
          THEN out("BackendError", Nothing, calls1 \o <<"embeddings.insert_one">>,
                   idx, embs, colls1, oid1)
        ELSE IF fail = "index.upsert" \/ ~Truthy(self)
          THEN out("BackendError", Nothing,
                   calls1 \o <<"embeddings.insert_one", "index.upsert">>,
                   idx, InsertOne(embs, obj), colls1, oid1 + 1)
        ELSE out("returned", Some(oid1),
                 calls1 \o <<"embeddings.insert_one", "index.upsert">>,
                 IndexUpsert(idx, ns, entry), InsertOne(embs, obj), colls1, oid1 + 1)

----------------------------------------------------------------------------
(* The state the program starts in *)

\* The embeddings earlier store calls left in the stores.
Seeds == 1..3

\* Seeds 1 and 2 belong to the same document.
SeedObj(i) == Cardinality(Seeds) + (IF i = 2 THEN 1 ELSE i)

SeedVector(i) ==
    IF i % 3 = 1 THEN <<1, 0>> ELSE IF i % 3 = 2 THEN <<1, 1>> ELSE <<0, 1>>

SeedMetadata(i) == IF i % 2 = 0 THEN "m" ELSE "{}"

SeedName(i) == IF i <= 2 THEN "foo" ELSE "bar"

SeedRecord(i) ==
    [_id |-> i, vector |-> PyList(SeedVector(i)), table |-> "widgets",
     obj_id |-> Some(SeedObj(i))]

SeedEntry(i) ==
    [ns |-> "widgets", id |-> Str(i), values |-> SeedVector(i),
     metadata |-> SeedMetadata(i)]

SeedDoc(i) == [_id |-> SeedObj(i), name |-> SeedName(i)]

NoCall == [op |-> "none"]

\* The stores as earlier store calls left them: every seed embedding with its
\* record, its vector entry and its owning document.
InitStores ==
    /\ exists = TRUE
    /\ pinecone = {SeedEntry(i) : i \in Seeds}
    /\ embeddings = {SeedRecord(i) : i \in Seeds}
    /\ collections = [t \in Tables |->
                        IF t = "widgets" THEN {SeedDoc(i) : i \in Seeds} ELSE {}]
    /\ nextOid = 2 * Cardinality(Seeds) + 1
    /\ ncalls = 0
    /\ nexternal = 0
    /\ prev = NoCall
    /\ last = NoCall

\* The callers that may run store or search concurrently.
Procs == {"p", "q"}

\* No caller is inside a call, and nothing else of the library has run.
Idle ==
    /\ procs = [p \in Procs |-> [pc |-> "idle"]]
    /\ llm = NoCall
    /\ txt = NoCall
    /\ convo = NoCall
    /\ asst = NoCall
    /\ ctx = NoCall

\* The module as imported: nothing binds the name mongo.
Init == mongo = "unbound" /\ InitStores /\ Idle

----------------------------------------------------------------------------
(* The calls *)

QueryVectors == {<<1, 0>>, <<1, 1>>}

\* The vector argument of Embedding(vector=...): None, [] or a vector.
VectorArgs == {PyNone, PyList(<<>>)} \cup {PyList(v) : v \in QueryVectors}

Ks == {1, DefaultK}

Filters == {None, "m"}

\* 0, the default 0.4, and the score of two vectors 45 degrees apart.
Cutoffs == {0, DefaultCutoff, Cosine(<<1, 0>>, <<1, 1>>)}

SearchFails == {None, "index.query", "embeddings.find_one", "table.find_one", "index.delete"}

StoreFails == {None, "index.upsert"}

\* Embedding(vector=[1, 0]).search("widgets"): k=10, filter=None, cutoff=0.4,
\* every backend available.
PlainSearch ==
    [arg |-> PyList(<<1, 0>>), ns |-> "widgets", k |-> DefaultK, filter |-> None,
     cutoff |-> DefaultCutoff, fail |-> None]

Varied(c) == Cardinality({f \in DOMAIN PlainSearch : c[f] # PlainSearch[f]})

SearchCalls ==
    {c \in [arg : VectorArgs, ns : Namespaces, k : Ks, filter : Filters,
            cutoff : Cutoffs, fail : SearchFails] : Varied(c) <= MaxVaried}

\* (id, info) of a store call: the id of an existing document, a partial
\* document that matches an existing one ("foo") or none ("baz"), the id of no
\* document, or neither argument.
\* An ObjectId that is the _id of no document.
StrayObj == SeedObj(2) + 1

OwnerArgs ==
    {<<Some(SeedObj(1)), Nothing>>, <<Nothing, Some("foo")>>, <<Nothing, Some("baz")>>,
     <<Some(StrayObj), Nothing>>, <<Nothing, Nothing>>}

\* The store call just made, kept while the next call runs.
Remember(call) == IF call.op = "store" THEN call ELSE NoCall

\* Embedding(vector=c.arg).search(c.ns, c.k, c.filter, c.cutoff).  While the
\* service has no index of the name, index.query is a call that fails.
Search ==
    /\ ncalls < MaxCalls
    /\ \E c \in SearchCalls :
        LET self == EmbeddingInit(c.arg) IN
        \E matches \in SearchResponses(self, c.ns, c.k, c.filter, c.fail, pinecone) :
          LET out == SearchOutcome(self, c.ns, c.cutoff, c.fail, matches, mongo,
                                   pinecone, embeddings, collections)
          IN  /\ ~exists => c.fail = "index.query"
              /\ pinecone' = out.index
              /\ last' = [op |-> "search", arg |-> c.arg, vector |-> self, ns |-> c.ns,
                          k |-> c.k, filter |-> c.filter, cutoff |-> c.cutoff,
                          fail |-> c.fail, matches |-> matches, outcome |-> out.outcome,
                          result |-> out.result, lost |-> out.lost, calls |-> out.calls]
              /\ prev' = Remember(last)
              /\ ncalls' = ncalls + 1
              /\ UNCHANGED <<mongo, exists, embeddings, collections, nextOid, nexternal,
                             elsewhere>>

\* Embedding(vector=v).store("widgets", pinecone_namespace, id, info).  While
\* the service has no index of the name, index.upsert is a call that fails.
Store ==
    /\ ncalls < MaxCalls
    /\ \E v \in QueryVectors, nsArg \in {None, "gadgets"}, owner \in OwnerArgs,
          fail \in StoreFails :
         LET self == EmbeddingInit(PyList(v))
             out  == StoreOutcome(self, "widgets", nsArg, owner[1], owner[2], None, fail,
                                  mongo, pinecone, embeddings, collections, nextOid)
         IN  /\ ~exists => fail = "index.upsert"
             /\ pinecone' = out.index
             /\ embeddings' = out.embeddings
             /\ collections' = out.collections
             /\ nextOid' = out.nextOid
             /\ last' = [op |-> "store", vector |-> self, table |-> "widgets",
                         nsArg |-> nsArg, ns |-> out.ns, idArg |-> owner[1],
                         info |-> owner[2], fail |-> fail, outcome |-> out.outcome,
                         ret |-> out.ret, obj_id |-> out.obj_id, inserted |-> out.inserted,
                         calls |-> out.calls]
             /\ prev' = Remember(last)
             /\ ncalls' = ncalls + 1
             /\ UNCHANGED <<mongo, exists, nexternal, elsewhere>>

\* A document leaves its collection without the engine (manual deletion).
ExternalDeleteDoc ==
    /\ nexternal < MaxExternal
    /\ \E t \in Tables : \E d \in collections[t] :
        /\ collections' = [collections EXCEPT ![t] = @ \ {d}]
        /\ last' = [op |-> "external"]
        /\ prev' = NoCall
        /\ nexternal' = nexternal + 1
        /\ UNCHANGED <<mongo, exists, pinecone, embeddings, nextOid, ncalls, elsewhere>>

\* A Registry record leaves mongo.embeddings without the engine.
ExternalDeleteRecord ==
    /\ nexternal < MaxExternal
    /\ \E r \in embeddings :
        /\ embeddings' = embeddings \ {r}
        /\ last' = [op |-> "external"]
        /\ prev' = NoCall
        /\ nexternal' = nexternal + 1
        /\ UNCHANGED <<mongo, exists, pinecone, collections, nextOid, ncalls, elsewhere>>

\* A vector entry leaves the index without the engine (eviction, manual deletion).
ExternalDeleteVector ==
    /\ nexternal < MaxExternal
    /\ \E e \in pinecone :
        /\ pinecone' = pinecone \ {e}
        /\ last' = [op |-> "external"]
        /\ prev' = NoCall
        /\ nexternal' = nexternal + 1
        /\ UNCHANGED <<mongo, exists, embeddings, collections, nextOid, ncalls, elsewhere>>

\* recreate(), up to and including pc.delete_index(PINECONE_INDEX_NAME)
\* (line 56): the index and its entries are gone; NotFoundException, raised
\* when there is no index of the name, is passed over.  The Registry and the
\* documents are not touched.
RecreateDelete(p) ==
    /\ ncalls < MaxCalls
    /\ procs[p].pc = "idle"
    /\ exists' = FALSE
    /\ pinecone' = {}
    /\ procs' = [procs EXCEPT ![p] = [pc |-> "create", op |-> "recreate"]]
    /\ last' = [op |-> "recreate", call |-> "delete_index", outcome |-> "running"]
    /\ prev' = NoCall
    /\ ncalls' = ncalls + 1
    /\ UNCHANGED <<mongo, embeddings, collections, nextOid, nexternal, llm, txt, convo,
                   asst, ctx>>

\* pc.create_index (line 29) as the service answers it: an empty index of the
\* name is made, or the call raises because the service has one already.
CreateIndex(p, op) ==
    /\ exists' = TRUE
    /\ procs' = [procs EXCEPT ![p] = IF exists THEN [pc |-> "idle"]
                                     ELSE [pc |-> "index", op |-> op]]
    /\ last' = [op |-> op, call |-> "create_index",
                outcome |-> IF exists THEN "raised" ELSE "running"]
    /\ prev' = NoCall
    /\ UNCHANGED <<mongo, pinecone, embeddings, collections, nextOid, nexternal,
                   llm, txt, convo, asst, ctx>>

\* recreate(), from pc.delete_index to the pc.create_index of create(): the
\* call raises when another caller has made an index of the name meanwhile.
RecreateCreate(p) ==
    /\ procs[p].pc = "create"
    /\ CreateIndex(p, "recreate")
    /\ UNCHANGED ncalls

\* create() called on its own, up to and including pc.create_index.
Create(p) ==
    /\ ncalls < MaxCalls
    /\ procs[p].pc = "idle"
    /\ CreateIndex(p, "create")
    /\ ncalls' = ncalls + 1

\* create(), from pc.create_index to its return: pc.Index(PINECONE_INDEX_NAME)
\* (line 38) raises NotFoundException when another caller's pc.delete_index
\* has removed the index meanwhile.
CreateReturn(p) ==
    /\ procs[p].pc = "index"
    /\ procs' = [procs EXCEPT ![p] = [pc |-> "idle"]]
    /\ last' = [op |-> procs[p].op, call |-> "Index",
                outcome |-> IF exists THEN "returned" ELSE "NotFoundException"]
    /\ prev' = NoCall
    /\ UNCHANGED <<mongo, exists, pinecone, embeddings, collections, nextOid, ncalls,
                   nexternal, llm, txt, convo, asst, ctx>>

\* recreate() and create() of one caller; searches, stores and the calls of
\* the other caller run between their backend calls.
Recreate == \E p \in Procs : RecreateDelete(p) \/ RecreateCreate(p)

CreateCall == \E p \in Procs : Create(p) \/ CreateReturn(p)

Next ==
    \/ Search
    \/ Store
    \/ Recreate
    \/ CreateCall
    \/ ExternalDeleteDoc
    \/ ExternalDeleteRecord
    \/ ExternalDeleteVector

\* The code as it stands.
Spec == Init /\ [][Next]_vars

----------------------------------------------------------------------------
(* Properties: what the stores hold, stated without the engine's operators *)

InIndex(ns, id) == \E e \in pinecone : e.ns = ns /\ e.id = id

HasRecord(id) == \E x \in embeddings : x._id = id.hex

RecordOf(id) == CHOOSE x \in embeddings : x._id = id.hex

HasOwner(x) == x.obj_id # Nothing /\ \E d \in collections[x.table] : d._id = x.obj_id[1]

OwnerOf(x) == CHOOSE d \in collections[x.table] : d._id = x.obj_id[1]

\* The match resolves: its Registry record and that record's document exist.
Resolves(r) == HasRecord(r.id) /\ HasOwner(RecordOf(r.id))

\* The matches of the last search that scored above its cutoff.
Surviving == {i \in 1..Len(last.matches) : last.matches[i].score > last.cutoff}

\* s without its i-th element.
Without(s, i) == [j \in 1..(Len(s) - 1) |-> IF j < i THEN s[j] ELSE s[j + 1]]

\* C1: a search that surfaces, above cutoff, an entry X with no Registry
\* record returns, gives no document for X (at most one document per
\* surviving match that has a record), and leaves X absent from the
\* searched namespace.
C1_LostRecordRepaired ==
    (last.op = "search" /\ last.fail = None) =>
        \A i \in Surviving :
            ~HasRecord(last.matches[i].id) =>
                /\ last.outcome = "returned"
                /\ Len(last.result)
                     <= Cardinality({j \in Surviving : HasRecord(last.matches[j].id)})
                /\ ~InIndex(last.ns, last.matches[i].id)

\* C2: a search that surfaces, above cutoff, an entry whose Registry record
\* remains but whose owning document is gone returns, omits it (at most one
\* document per surviving match that resolves, so [] when it was the only
\* match), and removes its id from the searched namespace.
C2_LostDocumentRepaired ==
    (last.op = "search" /\ last.fail = None) =>
        \A i \in Surviving :
            (HasRecord(last.matches[i].id) /\ ~HasOwner(RecordOf(last.matches[i].id))) =>
                /\ last.outcome = "returned"
                /\ Len(last.result)
                     <= Cardinality({j \in Surviving : Resolves(last.matches[j])})
                /\ ~InIndex(last.ns, last.matches[i].id)

\* C3: store(v, id=D) for an existing document D, followed at once by a search
\* with the same vector in the same namespace and cutoff 0, returns a list
\* whose first element is D.
C3_RoundTrip ==
    ( /\ last.op = "search" /\ prev.op = "store"
      /\ last.fail = None /\ prev.fail = None
      /\ prev.info = Nothing /\ prev.idArg # Nothing
      /\ \E d \in collections[prev.table] : d._id = prev.idArg[1]
      /\ last.vector = prev.vector /\ last.ns = prev.ns
      /\ last.cutoff = 0 /\ last.filter = None )
    => ( /\ last.outcome = "returned"
         /\ last.result # <<>>
         /\ last.result[1]._id = prev.idArg[1] )

\* C4: two store calls in a row on the same table with the same info and no
\* id both complete, record the same owning id, and the second inserts no
\* document.
C4_IdempotentDedup ==
    ( /\ last.op = "store" /\ prev.op = "store"
      /\ last.fail = None /\ prev.fail = None
      /\ last.table = prev.table
      /\ last.info # Nothing /\ last.info = prev.info
      /\ last.idArg = Nothing /\ prev.idArg = Nothing )
    => ( /\ prev.outcome = "returned" /\ last.outcome = "returned"
         /\ ~last.inserted
         /\ \E x, y \in embeddings :
               /\ Some(x._id) = prev.ret /\ Some(y._id) = last.ret
               /\ x._id # y._id /\ x.obj_id = y.obj_id )

\* C5: a search on an embedding built from None or [] raises ValueError,
\* makes no backend call and leaves both stores as they were.
C5_NoVectorNoCalls ==
    [][ (last'.op = "search" /\ ~Truthy(last'.arg)) =>
            ( /\ last'.outcome = "ValueError"
              /\ last'.calls = <<>>
              /\ UNCHANGED stores ) ]_vars

C5_Witness ==
    last.op = "search" /\ last.arg = PyList(<<>>) /\ last.outcome = "ValueError"

\* C6: a match scoring at or below the cutoff does not affect the search: its
\* id is not among the lost ids, its entry is still in the index afterwards,
\* and outcome, result and lost ids are those of the same search without it.
C6_BelowCutoffIgnored ==
    last.op = "search" =>
        \A i \in 1..Len(last.matches) :
            last.matches[i].score <= last.cutoff =>
                /\ last.matches[i].id \notin Range(last.lost)
                /\ InIndex(last.ns, last.matches[i].id)
                /\ LET o == SearchResolve(Without(last.matches, i), last.ns, last.cutoff,
                                          last.fail, mongo, pinecone, embeddings, collections)
                   IN  /\ o.outcome = last.outcome
                       /\ o.result = last.result
                       /\ o.lost = last.lost

\* A search returned although one of its matches, scoring exactly the cutoff,
\* has no Registry record.
C6_Witness ==
    /\ last.op = "search" /\ last.outcome = "returned"
    /\ \E i \in 1..Len(last.matches) :
          /\ last.matches[i].score = last.cutoff
          /\ ~HasRecord(last.matches[i].id)
          /\ InIndex(last.ns, last.matches[i].id)

\* The documents of the matches that scored above the cutoff and resolve, in
\* the order of the matches.
ExpectedDocs ==
    LET s == SelectSeq(last.matches, LAMBDA r : r.score > last.cutoff /\ Resolves(r))
    IN  [i \in 1..Len(s) |-> OwnerOf(RecordOf(s[i].id))]

\* C8: a search with a vector, none of whose backend calls fails, returns its
\* matches, in the index's order, restricted to those above the cutoff that
\* resolve, each replaced by its document.
C8_RankOrderKept ==
    (last.op = "search" /\ Truthy(last.vector) /\ last.fail = None) =>
        /\ last.outcome = "returned"
        /\ last.result = ExpectedDocs

C10_DriftNeverRaises ==
    (last.op = "search" /\ Truthy(last.vector) /\ last.fail = None) =>
        last.outcome = "returned"

----------------------------------------------------------------------------
(* Concurrent callers: store and search run one backend call at a time *)

\* Where a call has ended: returned, raised, or given up by its caller.
Ended == {"done", "raised", "abandoned"}

\* How many arguments of a concurrent store or search differ from the plain
\* call at once.
MaxRaceVaried == 1

\* Embedding(vector=[1, 0]).store("widgets", id=D) for an existing document D.
PlainStore ==
    [v |-> <<1, 0>>, table |-> "widgets", nsArg |-> None,
     owner |-> <<Some(SeedObj(1)), Nothing>>, metadata |-> None]

StoreVaried(c) == Cardinality({f \in DOMAIN PlainStore : c[f] # PlainStore[f]})

\* The store calls of the concurrent callers: any vector, table, namespace,
\* (id, info) and metadata.
StoreCalls ==
    {c \in [v : QueryVectors, table : Tables, nsArg : {None, "gadgets"},
            owner : OwnerArgs, metadata : {None, "m"}] : StoreVaried(c) <= MaxRaceVaried}

\* The search calls of the concurrent callers: those with a vector (a search
\* without one raises before its first backend call).
RaceSearchCalls ==
    {c \in SearchCalls : /\ c.fail = None /\ Truthy(EmbeddingInit(c.arg))
                         /\ Varied(c) <= MaxRaceVaried}

\* Deviation: the insert of the record is left out when no info is given.
StoreLineAfterNoRecord(pc, found) ==
    CASE pc = "begin"      -> IF found THEN "find" ELSE "upsert"
      [] pc = "find"       -> IF found THEN "insert_rec" ELSE "insert_doc"
      [] pc = "insert_doc" -> "insert_rec"
      [] pc = "insert_rec" -> "upsert"
      [] pc = "upsert"     -> "done"

\* Deviation: the vector is upserted before the record is inserted.
StoreLineAfterUpsertFirst(pc, found) ==
    CASE pc = "begin"      -> IF found THEN "find" ELSE "upsert"
      [] pc = "find"       -> IF found THEN "upsert" ELSE "insert_doc"
      [] pc = "insert_doc" -> "upsert"
      [] pc = "upsert"     -> "insert_rec"
      [] pc = "insert_rec" -> "done"

\* The backend call of store that follows the one at pc: find_one (line 191),
\* insert_one of the document (193), insert_one of the record (207), upsert (218).
\* At the beginning of the call found tells whether info is given (line 190),
\* after find_one whether it found a document (line 192).
StoreLineAfter(pc, found) ==
    CASE pc = "begin"      -> IF found THEN "find" ELSE "insert_rec"
      [] pc = "find"       -> IF found THEN "insert_rec" ELSE "insert_doc"
      [] pc = "insert_doc" -> "insert_rec"
      [] pc = "insert_rec" -> "upsert"
      [] pc = "upsert"     -> "done"

\* A caller enters Embedding(vector=v).store(table, pinecone_namespace, id,
\* info, metadata).
StoreBegin(p) ==
    /\ procs[p].pc = "idle"
    /\ \E c \in StoreCalls :
        procs' = [procs EXCEPT ![p] =
                    [pc |-> StoreLineAfter("begin", c.owner[2] # Nothing),
                     op |-> "store", vector |-> EmbeddingInit(PyList(c.v)),
                     table |-> c.table, nsArg |-> c.nsArg,
                     ns |-> NamespaceOrTable(c.nsArg, c.table),
                     id |-> c.owner[1], info |-> c.owner[2], metadata |-> c.metadata,
                     made |-> FALSE, rid |-> Nothing]]
    /\ UNCHANGED <<mongo, exists, pinecone, embeddings, collections, nextOid, ncalls, nexternal,
                   prev, last, llm, txt, convo, asst, ctx>>

\* The caller's store makes its next backend call.
StoreStep(p) ==
    LET c == procs[p] IN
    /\ c.pc \in {"find", "insert_doc", "insert_rec", "upsert"}
    /\ IF mongo = "unbound" /\ c.pc # "upsert"
         THEN /\ procs' = [procs EXCEPT ![p].pc = "raised"]
              /\ UNCHANGED <<pinecone, embeddings, collections, nextOid>>
       ELSE IF c.pc = "find"
         THEN LET find == FindByInfo(collections[c.table], c.info) IN
              /\ procs' = [procs EXCEPT ![p].pc = StoreLineAfter("find", find # Nothing),
                                        ![p].id = IF find # Nothing
                                                    THEN Some(find[1]._id) ELSE c.id]
              /\ UNCHANGED <<pinecone, embeddings, collections, nextOid>>
       ELSE IF c.pc = "insert_doc"
         THEN /\ collections' = [collections EXCEPT ![c.table] =
                                    InsertOne(@, [_id |-> nextOid, name |-> c.info[1]])]
              /\ nextOid' = nextOid + 1
              /\ procs' = [procs EXCEPT ![p].pc = StoreLineAfter("insert_doc", FALSE),
                                        ![p].id = Some(nextOid),
                                        ![p].made = TRUE]
              /\ UNCHANGED <<pinecone, embeddings>>
       ELSE IF c.pc = "insert_rec"
         THEN /\ embeddings' = InsertOne(embeddings,
                                  [_id |-> nextOid, vector |-> c.vector,
                                   table |-> c.table, obj_id |-> c.id])
              /\ nextOid' = nextOid + 1
              /\ procs' = [procs EXCEPT ![p].pc = StoreLineAfter("insert_rec", FALSE),
                                        ![p].rid = Some(nextOid)]
              /\ UNCHANGED <<pinecone, collections>>
       ELSE /\ pinecone' = IndexUpsert(pinecone, c.ns,
                              [id |-> Str(ObjectIdOfOpt(c.rid)), values |-> c.vector.v,
                               metadata |-> MetadataOrEmpty(c.metadata)])
            /\ procs' = [procs EXCEPT ![p].pc = StoreLineAfter("upsert", FALSE)]
            /\ UNCHANGED <<embeddings, collections, nextOid>>
    /\ UNCHANGED <<mongo, exists, ncalls, nexternal, prev, last, llm, txt, convo, asst, ctx>>

\* A caller enters Embedding(vector=c.arg).search(c.ns, c.k, c.filter, c.cutoff).
SearchBegin(p) ==
    /\ procs[p].pc = "idle"
    /\ \E s \in RaceSearchCalls :
        procs' = [procs EXCEPT ![p] =
                    [pc |-> "query", op |-> "search", vector |-> EmbeddingInit(s.arg),
                     ns |-> s.ns, k |-> s.k, filter |-> s.filter, cutoff |-> s.cutoff,
                     matches |-> <<>>, kept |-> <<>>, objs |-> <<>>, owners |-> <<>>,
                     lost |-> <<>>, result |-> <<>>,
                     deleted |-> <<>>]]
    /\ UNCHANGED <<mongo, exists, pinecone, embeddings, collections, nextOid, ncalls, nexternal,
                   prev, last, llm, txt, convo, asst, ctx>>

\* Where a search stands once the lookups in c are made: at the next
\* find_one on mongo.embeddings (146-150), at the next find_one on an owning
\* collection (157-160), at index.delete (166-168), or at its return.
SearchLineAfter(c) ==
    IF Len(c.objs) < Len(c.kept) THEN "records"
    ELSE IF Len(c.owners) < Len(FoundOf(c.objs)) THEN "owners"
    ELSE IF LostOf(c.objs) \o LostOf(c.owners) # <<>> THEN "delete"
    ELSE "done"

\* The search with its program counter moved on; the lost ids and the
\* result are those of lines 153-163 once every lookup is made.
SearchMoved(c) ==
    LET pc == SearchLineAfter(c)
    IN  [c EXCEPT !.pc = pc,
                  !.lost = IF pc \in {"delete", "done"}
                             THEN LostOf(c.objs) \o LostOf(c.owners) ELSE <<>>,
                  !.result = IF pc \in {"delete", "done"} THEN DocsOf(c.owners) ELSE <<>>]

\* The caller's search runs up to and including its next backend call:
\* index.query (line 138), one find_one on mongo.embeddings (146-150), one
\* find_one on an owning collection (157-160), index.delete (168).
SearchStep(p) ==
    LET c == procs[p] IN
    /\ c.pc \in {"query", "records", "owners", "delete"}
    /\ IF c.pc = "query"
         THEN /\ \E matches \in SearchResponses(c.vector, c.ns, c.k, c.filter, None, pinecone) :
                    procs' = [procs EXCEPT ![p] =
                                SearchMoved([c EXCEPT !.matches = matches,
                                                      !.kept = AboveCutoff(matches, c.cutoff)])]
              /\ UNCHANGED pinecone
       ELSE IF c.pc = "records"
         THEN LET r == c.kept[Len(c.objs) + 1] IN
              /\ procs' = IF mongo = "unbound"
                            THEN [procs EXCEPT ![p].pc = "raised"]
                            ELSE [procs EXCEPT ![p] =
                                    SearchMoved([c EXCEPT !.objs =
                                        c.objs \o LookupRecords(<<r>>, embeddings)])]
              /\ UNCHANGED pinecone
       ELSE IF c.pc = "owners"
         THEN LET x == FoundOf(c.objs)[Len(c.owners) + 1] IN
              /\ procs' = [procs EXCEPT ![p] =
                            SearchMoved([c EXCEPT !.owners =
                                c.owners \o LookupOwners(<<x>>, collections)])]
              /\ UNCHANGED pinecone
       ELSE /\ pinecone' = IndexDelete(pinecone, c.lost, c.ns)
            /\ procs' = [procs EXCEPT ![p].pc = "done", ![p].deleted = c.lost]
    /\ UNCHANGED <<mongo, exists, embeddings, collections, nextOid, ncalls, nexternal, prev, last,
                   llm, txt, convo, asst, ctx>>

\* The caller gives up a call that has not ended (timeout); nothing is undone.
Abandon(p) ==
    /\ procs[p].pc \notin Ended \cup {"idle"}
    /\ procs' = [procs EXCEPT ![p].pc = "abandoned"]
    /\ UNCHANGED <<mongo, exists, pinecone, embeddings, collections, nextOid, ncalls, nexternal,
                   prev, last, llm, txt, convo, asst, ctx>>

\* Which seed lost its Registry record, and which its owning document, behind
\* the engine's back before the callers start.
Drifts == {<<{}, {}>>, <<{1}, {}>>, <<{}, {3}>>, <<{1}, {3}>>}

\* The stores the concurrent callers start from.
InitRaceStores ==
    \E d \in Drifts :
        /\ exists = TRUE
        /\ pinecone = {SeedEntry(i) : i \in Seeds}
        /\ embeddings = {SeedRecord(i) : i \in Seeds \ d[1]}
        /\ collections = [t \in Tables |->
                            IF t = "widgets" THEN {SeedDoc(i) : i \in Seeds \ d[2]} ELSE {}]
        /\ nextOid = 2 * Cardinality(Seeds) + 1
        /\ ncalls = 0 /\ nexternal = 0
        /\ prev = NoCall /\ last = NoCall

InitRace == mongo = "unbound" /\ InitRaceStores /\ Idle

NextRace ==
    \E p \in Procs :
        \/ StoreBegin(p)
        \/ StoreStep(p)
        \/ SearchBegin(p)
        \/ SearchStep(p)
        \/ Abandon(p)

\* Concurrent callers of the code as it stands.
SpecRace == InitRace /\ [][NextRace]_vars

\* ---------------------------------------------------------------------
\* Concurrent callers while documents, records and entries are deleted
\* behind the engine's back.

NextDrift ==
    \/ NextRace
    \/ ExternalDeleteDoc
    \/ ExternalDeleteRecord
    \/ ExternalDeleteVector

\* Concurrent callers and external deletions.
SpecDrift == Init /\ [][NextDrift]_vars

\* The entries of the namespace with one of the ids.
EntriesOf(ns, ids) == {e \in pinecone : e.ns = ns /\ e.id \in Range(ids)}

Orphans == {e \in pinecone : ~(HasRecord(e.id) /\ HasOwner(RecordOf(e.id)))}

\* C12: no step of a store or a search, and no abandoning of one between its
\* backend calls, adds an index entry that lacks its Registry record or its
\* owning document; a call given up mid-way has upserted no entry.
C12_AbandonLeavesStoresValid ==
    [][ /\ Orphans' \subseteq Orphans
        /\ \A p \in Procs :
              (procs'[p].pc = "abandoned" /\ procs'[p].op = "store") =>
                  \A e \in pinecone' : e.id # Str(ObjectIdOfOpt(procs'[p].rid))
      ]_vars

\* One caller gave up its store, the other gave up its search between
\* index.query, which answered with matches above the cutoff, and the first
\* find_one.
C12_Witness ==
    \E p, q \in Procs :
        /\ procs[p].pc = "abandoned" /\ procs[p].op = "store"
        /\ procs[q].pc = "abandoned" /\ procs[q].op = "search"
        /\ procs[q].kept # <<>> /\ procs[q].objs = <<>>

\* The store calls that have ended without being abandoned.
StoresEnded == {p \in Procs : procs[p].pc \in {"done", "raised"} /\ procs[p].op = "store"}

\* C13: every store call that ends has returned, created at most one owning
\* document, and left its own Registry record and its own index entry,
\* the record referring to a document that exists; concurrent calls leave
\* distinct records.
C13_ConcurrentStores ==
    /\ \A p \in StoresEnded :
          /\ procs[p].pc = "done"
          /\ procs[p].rid # Nothing
          /\ \E x \in embeddings :
                /\ Some(x._id) = procs[p].rid
                /\ x.obj_id = procs[p].id
                /\ HasOwner(x)
                /\ InIndex(procs[p].ns, Str(x._id))
    /\ \A p, q \in StoresEnded : p # q => procs[p].rid # procs[q].rid
    /\ Cardinality(UNION {collections[t] : t \in Tables})
          <= Cardinality(Seeds) + Cardinality({p \in Procs : procs[p].pc # "idle"
                                                             /\ procs[p].op = "store"})

Derivable(idx, embs, colls) ==
    \A e1, e2 \in idx :
        LET x1 == {x \in embs : Str(x._id) = e1.id}
            x2 == {x \in embs : Str(x._id) = e2.id}
        IN  \A r1 \in x1, r2 \in x2 :
              (r1.vector = r2.vector /\ r1.table = r2.table /\ r1.obj_id = r2.obj_id)
              => (e1.ns = e2.ns /\ e1.values = e2.values /\ e1.metadata = e2.metadata)

----------------------------------------------------------------------------
(* clean_text (vectors.py lines 61-74): texts are sequences of characters *)

\* Longest text given to clean_text.
MaxLen == 3

\* One character of each kind the function tells apart: a lower-case and an
\* upper-case letter, the underscore (a word character), a space and a
\* newline (whitespace), a full stop (punctuation).
Chars == {"a", "A", "_", " ", "\n", "."}

RECURSIVE TextsOfLen(_)
TextsOfLen(n) ==
    IF n = 0 THEN {<<>>} ELSE {Append(t, c) : t \in TextsOfLen(n - 1), c \in Chars}

Texts == UNION {TextsOfLen(n) : n \in 0..MaxLen}

\* \w
IsWord(c) == c \in {"a", "A", "_"}

\* \s
IsSpace(c) == c \in {" ", "\n"}

\* [^\w\s]
IsPunct(c) == ~IsWord(c) /\ ~IsSpace(c)

\* The positions where `$` matches: the end of the text, and just before a
\* newline that ends the text.
DollarAt(text) ==
    {Len(text) + 1} \cup (IF text # <<>> /\ text[Len(text)] = "\n" THEN {Len(text)} ELSE {})

\* text without its i-th character.
DropChar(text, i) == [j \in 1..(Len(text) - 1) |-> IF j < i THEN text[j] ELSE text[j + 1]]

\* Deviation: `$` matches at the very end of the text only.
SubTrailingPunctAtEnd(text) ==
    IF text # <<>> /\ IsPunct(text[Len(text)]) THEN DropChar(text, Len(text)) ELSE text

\* re.sub(r'[^\w\s]$', '', text): every character that is neither word nor
\* whitespace and stands right before a position where `$` matches is removed
\* (at most one such character exists).
SubTrailingPunct(text) ==
    LET hits == {i \in 1..Len(text) : IsPunct(text[i]) /\ (i + 1) \in DollarAt(text)}
    IN  IF hits = {} THEN text ELSE DropChar(text, CHOOSE i \in hits : TRUE)

RECURSIVE LStrip(_)
LStrip(text) ==
    IF text # <<>> /\ IsSpace(text[1]) THEN LStrip(Tail(text)) ELSE text

RECURSIVE RStrip(_)
RStrip(text) ==
    IF text # <<>> /\ IsSpace(text[Len(text)])
      THEN RStrip(SubSeq(text, 1, Len(text) - 1)) ELSE text

\* str.strip()
Strip(text) == RStrip(LStrip(text))

\* str.lower()
Lower(text) == [i \in 1..Len(text) |-> IF text[i] = "A" THEN "a" ELSE text[i]]

clean_text(text) == Lower(Strip(SubTrailingPunct(text)))

\* A text is at hand; nothing else of the library has run.
InitText ==
    /\ mongo = "unbound" /\ InitStores
    /\ procs = [p \in Procs |-> [pc |-> "idle"]]
    /\ llm = NoCall
    /\ convo = NoCall
    /\ asst = NoCall
    /\ ctx = NoCall
    /\ \E t \in Texts : txt = [op |-> "given", input |-> t]

\* clean_text(txt.input)
CleanText ==
    /\ txt.op = "given"
    /\ txt' = [op |-> "cleaned", input |-> txt.input, output |-> clean_text(txt.input)]
    /\ UNCHANGED <<mongo, exists, pinecone, embeddings, collections, nextOid, ncalls, nexternal,
                   prev, last, procs, llm, convo, asst, ctx>>

\* clean_text(clean_text(txt.input)): a cleaned key is cleaned once more.
CleanAgain ==
    /\ txt.op = "cleaned"
    /\ txt' = [op |-> "recleaned", input |-> txt.input, output |-> txt.output,
               again |-> clean_text(txt.output)]
    /\ UNCHANGED <<mongo, exists, pinecone, embeddings, collections, nextOid, ncalls, nexternal,
                   prev, last, procs, llm, convo, asst, ctx>>

NextText == CleanText \/ CleanAgain

SpecText == InitText /\ [][NextText]_vars

\* What the description of clean_text gives: the final character removed when
\* it is neither a word character nor whitespace, the result trimmed of
\* surrounding whitespace, then lower-cased.
Described(text) ==
    LET cut == IF text # <<>> /\ ~IsWord(text[Len(text)]) /\ ~IsSpace(text[Len(text)])
                 THEN SubSeq(text, 1, Len(text) - 1) ELSE text
        first == {i \in 1..Len(cut) : ~IsSpace(cut[i])}
    IN  IF first = {} THEN <<>>
        ELSE LET lo == CHOOSE i \in first : \A j \in first : i <= j
                 hi == CHOOSE i \in first : \A j \in first : i >= j
             IN  [k \in 1..(hi - lo + 1) |->
                    IF cut[lo + k - 1] = "A" THEN "a" ELSE cut[lo + k - 1]]

\* C18: clean_text(text) is the text with one final punctuation character
\* removed if there is one, then trimmed of surrounding whitespace, then
\* lower-cased.
C18_CleanTextAsDescribed ==
    txt.op = "cleaned" => txt.output = Described(txt.input)

----------------------------------------------------------------------------
(* SendValid (llm.py lines 100-215) *)
(* A response of the model is the sequence of its characters.              *)

\* Most attempts a caller allows (iters).
MaxIters == 3

\* iters=3
DefaultIters == 3

\* One backtick.
Tick == "<tick>"

\* Three backticks, and the opening fences of a JSON and of a YAML block.
Fence == <<Tick, Tick, Tick>>
FenceJson == Fence \o <<"j", "s", "o", "n">>
FenceYaml == Fence \o <<"y", "a", "m", "l">>

\* What Send may answer: "{}", "7", " 7", "Yes.", "x", " x", "None.", a
\* fenced JSON object on lines of its own, a date that no calendar has, and
\* "k" with the control character \x07 after it.
Responses ==
    {<<"{", "}">>, <<"7">>, <<" ", "7">>, <<"Y", "e", "s", ".">>, <<"x">>, <<" ", "x">>,
     <<"N", "o", "n", "e", ".">>, <<"k", "<07>">>,
     FenceJson \o <<"\n", "{", "}", "\n">> \o Fence,
     <<"2", "0", "2", "4", "-", "0", "2", "-", "3", "0">>}

\* Responses given to validate_response: those of Send and "none", "3.14",
\* "k: v", "{bad", a fenced YAML mapping, a list on three lines, "no!", the
\* empty response, "7" with a newline, JSON fences without newlines, closed
\* and not closed, and the texts of test_chatlib.py with some more that
\* json.loads, float and yaml.safe_load tell apart.
ValResponses ==
    Responses \cup
    {<<"n", "o", "n", "e">>, <<"3", ".", "1", "4">>, <<"k", ":", " ", "v">>,
     <<"{", "b", "a", "d">>,
     FenceYaml \o <<"\n", "k", ":", " ", "v", "\n">> \o Fence,
     <<"-", " ", "x", "\n", "\n", "+", "7">>, <<"n", "o", "!">>, <<>>, <<"7", "\n">>,
     FenceJson \o <<"{", "}">> \o Fence, FenceJson \o <<"{", "}">>,
     <<"4", "2">>, <<"1", "e", "3">>, <<"n", "a", "n">>, <<"{", " ", "}">>,
     <<"m", "a", "y", "b", "e">>,
     <<"{", "\"", "k", "e", "y", "\"", ":", " ", "\"", "v", "a", "l", "u", "e", "\"", "}">>,
     FenceJson \o <<"\n", "{", "\"", "k", "e", "y", "\"", ":", " ", "\"", "v", "a", "l",
                    "u", "e", "\"", "}", "\n">> \o Fence,
     <<"k", "e", "y", ":", " ", "v", "a", "l", "u", "e">>,
     <<"{", "i", "n", "v", "a", "l", "i", "d", ":", " ", "y", "a", "m", "l", ":">>,
     <<"k", ":", " ", "v", ":", " ", "x">>,
     <<"1", "1", "1", "1", "-", "1", "3", "-", "1", "1">>,
     <<"!", "!", "b", "o", "o", "l", " ", "x">>}

\* The type argument: the seven names, a name that is none of them, and a
\* function that accepts the response "7" and raises ValueError on any other.
Types == {"json", "yaml", "int", "float", "bool", "list", "str", "xml", "function"}

\* The types SendValid documents (line 106).
SupportedTypes == Types \ {"xml"}

\* The dictionary with the keys role and content.
Dict(role, content) == [kind |-> "dict", role |-> role, content |-> content]

\* (role, content)
Tuple(role, content) == [kind |-> "tuple", role |-> role, content |-> content]

\* The ms argument: a string, a list of tuples, a list of dictionaries.
MsArgs ==
    {[form |-> "str", text |-> <<"hi">>],
     [form |-> "list", items |-> <<Tuple("system", <<"be brief">>), Tuple("user", <<"hi">>)>>],
     [form |-> "list", items |-> <<Dict("user", <<"hi">>)>>]}

\* `for role, content in messages` on one element: a tuple gives its two
\* members, a dictionary its two keys.
Unpacked(item) ==
    IF item.kind = "tuple" THEN Dict(item.role, item.content)
                           ELSE Dict("role", <<"content">>)

\* transform_messages(messages), lines 21-43, for a string or a non-empty list.
transform_messages(messages) ==
    IF messages.form = "str"
      THEN <<Dict("user", messages.text)>>
    ELSE IF messages.items[1].kind = "tuple"
      THEN [i \in 1..Len(messages.items) |-> Unpacked(messages.items[i])]
    ELSE messages.items

\* ---------------------------------------------------------------------
\* The characters of a response.  A response is the sequence of its
\* characters; the letters, digits and signs of ASCII stand for themselves.

Digits == {"0", "1", "2", "3", "4", "5", "6", "7", "8", "9"}

LowerCase == <<"a", "b", "c", "d", "e", "f", "g", "h", "i", "j", "k", "l", "m",
               "n", "o", "p", "q", "r", "s", "t", "u", "v", "w", "x", "y", "z">>

UpperCase == <<"A", "B", "C", "D", "E", "F", "G", "H", "I", "J", "K", "L", "M",
               "N", "O", "P", "Q", "R", "S", "T", "U", "V", "W", "X", "Y", "Z">>

Letters == Range(LowerCase) \cup Range(UpperCase)

RECURSIVE StripResp(_, _)
\* str.strip(chars): the characters in chars removed from both ends.
StripResp(resp, chars) ==
    IF resp # <<>> /\ resp[1] \in chars THEN StripResp(Tail(resp), chars)
    ELSE IF resp # <<>> /\ resp[Len(resp)] \in chars
      THEN StripResp(SubSeq(resp, 1, Len(resp) - 1), chars)
    ELSE resp

\* s without a leading sign out of signs.
Unsigned(s, signs) == IF s # <<>> /\ s[1] \in signs THEN Tail(s) ELSE s

\* ---------------------------------------------------------------------
\* yaml.safe_load: the scanner (yaml/scanner.py).
\* ---------------------------------------------------------------------

\* The character the reader puts after the last one of the text.
EOF == "<eof>"

\* The characters of a code above 127, told apart as far as the library
\* does: a space of Unicode (in a text, one that yaml does not end a line
\* at, as \xa0), a character the reader of yaml refuses (a control
\* character \x80-\x84 or \x86-\x9f, a surrogate, \ufffe, \uffff), and any
\* other.
UniSpace == "<space>"
UniControl == "<control>"
UniOther == "<other>"

Ascii ==
    <<"<00>", "<01>", "<02>", "<03>", "<04>", "<05>", "<06>", "<07>",
      "<08>", "\t", "\n", "<0b>", "<0c>", "\r", "<0e>", "<0f>",
      "<10>", "<11>", "<12>", "<13>", "<14>", "<15>", "<16>", "<17>",
      "<18>", "<19>", "<1a>", "<1b>", "<1c>", "<1d>", "<1e>", "<1f>",
      " ", "!", "\"", "#", "$", "%", "&", "'",
      "(", ")", "*", "+", ",", "-", ".", "/",
      "0", "1", "2", "3", "4", "5", "6", "7",
      "8", "9", ":", ";", "<", "=", ">", "?",
      "@", "A", "B", "C", "D", "E", "F", "G",
      "H", "I", "J", "K", "L", "M", "N", "O",
      "P", "Q", "R", "S", "T", "U", "V", "W",
      "X", "Y", "Z", "[", "\\", "]", "^", "_",
      Tick, "a", "b", "c", "d", "e", "f", "g",
      "h", "i", "j", "k", "l", "m", "n", "o",
      "p", "q", "r", "s", "t", "u", "v", "w",
      "x", "y", "z", "{", "|", "}", "~", "<7f>">>

\* The codes above 127 that the reader of yaml refuses (NON_PRINTABLE,
\* yaml/reader.py).
UniControlCodes == (128..132) \cup (134..159) \cup (55296..57343) \cup {65534, 65535}

\* The codes above 127 that str.isspace() holds for.
UniSpaceCodes ==
    {133, 160, 5760, 8232, 8233, 8239, 8287, 12288} \cup 8192..8202

\* The decimal digits above 127 stand in tens; the code of the zero of each.
UniZeroCodes ==
    {1632, 1776, 1984, 2406, 2534, 2662, 2790, 2918, 3046, 3174, 3302,
     3430, 3558, 3664, 3792, 3872, 4160, 4240, 6112, 6160, 6470, 6608,
     6784, 6800, 6992, 7088, 7232, 7248, 42528, 43216, 43264, 43472,
     43504, 43600, 44016, 65296, 66720, 68912, 69734, 69872, 69942,
     70096, 70384, 70736, 70864, 71248, 71360, 71472, 71904, 72016,
     72784, 73040, 73120, 92768, 92864, 93008, 120782, 120792, 120802,
     120812, 120822, 123200, 123632, 125264, 130032}

\* The decimal digits above 127, by their value.
UniDigits == <<"<d0>", "<d1>", "<d2>", "<d3>", "<d4>", "<d5>", "<d6>", "<d7>",
               "<d8>", "<d9>">>

\* chr(code): a character above 127 is told from the others of its kind only
\* where it is a decimal digit.
Chr(code) ==
    IF code < 128 THEN Ascii[code + 1]
    ELSE IF code \in UniSpaceCodes THEN UniSpace
    ELSE IF code \in UniControlCodes THEN UniControl
    ELSE IF \E z \in UniZeroCodes : code \in z..(z + 9)
      THEN UniDigits[code - (CHOOSE z \in UniZeroCodes : code \in z..(z + 9)) + 1]
    ELSE UniOther

HexDigits == <<"0", "1", "2", "3", "4", "5", "6", "7", "8", "9",
               "a", "b", "c", "d", "e", "f">>

Hex == Range(HexDigits) \cup {"A", "B", "C", "D", "E", "F"}

\* The lower-case letter of an upper-case one, any other character as it is.
LowerChar(ch) ==
    IF \E k \in 1..26 : UpperCase[k] = ch
      THEN LowerCase[CHOOSE k \in 1..26 : UpperCase[k] = ch]
      ELSE ch

HexDigitVal(ch) == (CHOOSE k \in 1..16 : HexDigits[k] = LowerChar(ch)) - 1

\* The greatest code chr() takes: the last of seventeen planes of 65536.
MaxCode == 17 * 65536 - 1

RECURSIVE Self(_, _)

RECURSIVE HexVal(_, _)
\* int(digits, 16), acc being the value of the digits read; a value above
\* MaxCode is given as MaxCode + 1.
HexVal(digits, acc) ==
    IF digits = <<>> THEN acc
    ELSE LET v == acc * 16 + Self("HexDigitVal", <<digits[1]>>)
         IN  HexVal(Tail(digits), IF v > MaxCode THEN MaxCode + 1 ELSE v)

At(s, i) == IF i >= 1 /\ i <= Len(s) THEN s[i] ELSE EOF

LineBreaks == {"\r", "\n"}
BreakZ == {EOF, "\r", "\n"}
SpaceBreakZ == {EOF, " ", "\r", "\n"}
BlankZ == {EOF, " ", "\t", "\r", "\n"}

AlNum == Digits \cup Letters \cup {"-", "_"}

Max0(S) == IF S = {} THEN 0 ELSE CHOOSE m \in S : \A x \in S : x <= m

\* The places before i where the reader starts a new line.
LineEnds(s, i) ==
    {j \in 1..(i - 1) : s[j] = "\n" \/ (s[j] = "\r" /\ At(s, j + 1) # "\n")}

\* The reader's line and column when its pointer is at i.
Line(s, i) == Cardinality(LineEnds(s, i))
Column(s, i) == i - 1 - Max0(LineEnds(s, i))

\* scan_line_break: the place after the line break at i, i when none is there.
ScanLineBreak(s, i) ==
    IF At(s, i) = "\r" /\ At(s, i + 1) = "\n" THEN i + 2
    ELSE IF At(s, i) \in LineBreaks THEN i + 1
    ELSE i

RECURSIVE SkipWhile(_, _, _)
\* The first place from i on whose character is not in set.
SkipWhile(s, i, set) ==
    IF At(s, i) \in set THEN SkipWhile(s, i + 1, set) ELSE i

RECURSIVE SkipUntil(_, _, _)
\* The first place from i on whose character is in set, EOF being in set.
SkipUntil(s, i, set) ==
    IF At(s, i) \in set THEN i ELSE SkipUntil(s, i + 1, set)

\* prefix(3) is '---' or '...' and a blank follows.
DocumentSeparator(s, i) ==
    /\ At(s, i) \in {"-", "."}
    /\ At(s, i + 1) = At(s, i) /\ At(s, i + 2) = At(s, i)
    /\ At(s, i + 3) \in BlankZ

Token(t) == [t |-> t, v |-> <<>>, a |-> <<>>, b |-> <<>>, plain |-> FALSE]

ScalarToken(v, plain) == [Token("scalar") EXCEPT !.v = v, !.plain = plain]

\* What scanning one token gives: the place after it, its token, whether a
\* simple key may follow, and the class of the exception raised ("" for
\* none, "YAMLError" for that class and those derived from it).
Scanned(i, tok, allow) == [i |-> i, tok |-> tok, allow |-> allow, err |-> ""]
ScanError(kind) == [i |-> 0, tok |-> Token("none"), allow |-> FALSE, err |-> kind]

\* Scanner.__init__, with the fields of the parser, the composer and the
\* constructor that work on the same loader.
Loader ==
    [i |-> 1, done |-> FALSE, flow_level |-> 0,
     tokens |-> <<Token("stream-start")>>, tokens_taken |-> 0,
     indent |-> -1, indents |-> <<>>, allow_simple_key |-> TRUE,
     possible_simple_keys |-> {}, err |-> ""]

Raise(st, kind) == [st EXCEPT !.err = kind]

AppendToken(st, tok) == [st EXCEPT !.tokens = Append(@, tok)]

InsertAt(seq, n, x) == SubSeq(seq, 1, n) \o <<x>> \o SubSeq(seq, n + 1, Len(seq))

\* stale_possible_simple_keys (a text has fewer than 1024 characters)
StalePossibleSimpleKeys(s, st) ==
    LET stale == {k \in st.possible_simple_keys : k.line # Line(s, st.i)}
    IN  IF \E k \in stale : k.required THEN Raise(st, "YAMLError")
        ELSE [st EXCEPT !.possible_simple_keys = @ \ stale]

\* remove_possible_simple_key
RemovePossibleSimpleKey(st) ==
    LET here == {k \in st.possible_simple_keys : k.level = st.flow_level}
    IN  IF \E k \in here : k.required THEN Raise(st, "YAMLError")
        ELSE [st EXCEPT !.possible_simple_keys = @ \ here]

\* save_possible_simple_key
SavePossibleSimpleKey(s, st) ==
    LET required == st.flow_level = 0 /\ st.indent = Column(s, st.i)
        r == RemovePossibleSimpleKey(st)
    IN  IF ~st.allow_simple_key THEN st
        ELSE IF r.err # "" THEN r
        ELSE [r EXCEPT !.possible_simple_keys = @ \cup
                 {[level |-> st.flow_level,
                   token_number |-> st.tokens_taken + Len(st.tokens),
                   required |-> required,
                   line |-> Line(s, st.i), column |-> Column(s, st.i)]}]

RECURSIVE UnwindIndent(_, _)
\* unwind_indent
UnwindIndent(st, column) ==
    IF st.flow_level # 0 \/ st.indent <= column THEN st
    ELSE UnwindIndent([st EXCEPT !.indent = st.indents[Len(st.indents)],
                                 !.indents = SubSeq(@, 1, Len(@) - 1),
                                 !.tokens = Append(@, Token("block-end"))],
                      column)

\* add_indent, starting being the token of the collection that begins.
AddIndent(st, column, starting) ==
    IF st.indent < column
      THEN [st EXCEPT !.indents = Append(@, st.indent), !.indent = column,
                      !.tokens = Append(@, starting)]
      ELSE st

RECURSIVE ScanToNextToken(_, _)
\* scan_to_next_token
ScanToNextToken(s, st) ==
    LET a == SkipWhile(s, st.i, {" "})
        b == IF At(s, a) = "#" THEN SkipUntil(s, a, BreakZ) ELSE a
        c == ScanLineBreak(s, b)
    IN  IF c # b
          THEN Self("ScanToNextToken", <<s, [st EXCEPT !.i = c,
                   !.allow_simple_key = IF st.flow_level = 0 THEN TRUE ELSE @]>>)
          ELSE [st EXCEPT !.i = b]

\* fetch_stream_end
FetchStreamEnd(st) ==
    LET r == RemovePossibleSimpleKey(UnwindIndent(st, -1))
    IN  IF r.err # "" THEN r
        ELSE [r EXCEPT !.allow_simple_key = FALSE, !.possible_simple_keys = {},
                       !.tokens = Append(@, Token("stream-end")), !.done = TRUE]

\* fetch_document_indicator
FetchDocumentIndicator(st, t) ==
    LET r == RemovePossibleSimpleKey(UnwindIndent(st, -1))
    IN  IF r.err # "" THEN r
        ELSE [r EXCEPT !.allow_simple_key = FALSE, !.i = @ + 3,
                       !.tokens = Append(@, Token(t))]

\* fetch_flow_collection_start
FetchFlowCollectionStart(s, st, t) ==
    LET r == Self("SavePossibleSimpleKey", <<s, st>>)
    IN  IF r.err # "" THEN r
        ELSE [r EXCEPT !.flow_level = @ + 1, !.allow_simple_key = TRUE,
                       !.i = @ + 1, !.tokens = Append(@, Token(t))]

\* fetch_flow_collection_end
FetchFlowCollectionEnd(st, t) ==
    LET r == RemovePossibleSimpleKey(st)
    IN  IF r.err # "" THEN r
        ELSE [r EXCEPT !.flow_level = @ - 1, !.allow_simple_key = FALSE,
                       !.i = @ + 1, !.tokens = Append(@, Token(t))]

\* fetch_flow_entry
FetchFlowEntry(st) ==
    LET r == RemovePossibleSimpleKey(st)
    IN  IF r.err # "" THEN r
        ELSE [r EXCEPT !.allow_simple_key = TRUE, !.i = @ + 1,
                       !.tokens = Append(@, Token("flow-entry"))]

\* fetch_block_entry
FetchBlockEntry(s, st) ==
    IF st.flow_level = 0 /\ ~st.allow_simple_key THEN Raise(st, "YAMLError")
    ELSE LET a == IF st.flow_level = 0
                    THEN AddIndent(st, Column(s, st.i), Token("block-sequence-start"))
                    ELSE st
             r == RemovePossibleSimpleKey(a)
         IN  IF r.err # "" THEN r
             ELSE [r EXCEPT !.allow_simple_key = TRUE, !.i = @ + 1,
                            !.tokens = Append(@, Token("block-entry"))]

\* fetch_key
FetchKey(s, st) ==
    IF st.flow_level = 0 /\ ~st.allow_simple_key THEN Raise(st, "YAMLError")
    ELSE LET a == IF st.flow_level = 0
                    THEN AddIndent(st, Column(s, st.i), Token("block-mapping-start"))
                    ELSE st
             r == RemovePossibleSimpleKey(a)
         IN  IF r.err # "" THEN r
             ELSE [r EXCEPT !.allow_simple_key = (st.flow_level = 0), !.i = @ + 1,
                            !.tokens = Append(@, Token("key"))]

\* fetch_value
FetchValue(s, st) ==
    LET here == {k \in st.possible_simple_keys : k.level = st.flow_level}
    IN  IF here # {}
          THEN LET key == CHOOSE k \in here : TRUE
                   n == key.token_number - st.tokens_taken
                   a == [st EXCEPT !.possible_simple_keys = @ \ here,
                                   !.tokens = InsertAt(@, n, Token("key"))]
                   b == IF st.flow_level = 0 /\ a.indent < key.column
                          THEN [a EXCEPT !.indents = Append(@, a.indent),
                                         !.indent = key.column,
                                         !.tokens = InsertAt(@, n, Token("block-mapping-start"))]
                          ELSE a
               IN  [b EXCEPT !.allow_simple_key = FALSE, !.i = @ + 1,
                             !.tokens = Append(@, Token("value"))]
        ELSE IF st.flow_level = 0 /\ ~st.allow_simple_key THEN Raise(st, "YAMLError")
        ELSE LET a == IF st.flow_level = 0
                        THEN AddIndent(st, Column(s, st.i), Token("block-mapping-start"))
                        ELSE st
                 r == RemovePossibleSimpleKey(a)
             IN  IF r.err # "" THEN r
                 ELSE [r EXCEPT !.allow_simple_key = (st.flow_level = 0), !.i = @ + 1,
                                !.tokens = Append(@, Token("value"))]

\* What a scan_ operator gave is put into the loader.
Scan(st, r) ==
    IF r.err # "" THEN Raise(st, r.err)
    ELSE [st EXCEPT !.i = r.i, !.allow_simple_key = r.allow,
                    !.tokens = Append(@, r.tok)]

\* scan_anchor
ScanAnchor(s, i, t) ==
    LET j == SkipWhile(s, i + 1, AlNum)
    IN  IF j = i + 1 THEN ScanError("YAMLError")
        ELSE IF At(s, j) \notin BlankZ \cup {"?", ":", ",", "]", "}", "%", "@", Tick}
          THEN ScanError("YAMLError")
        ELSE Scanned(j, [Token(t) EXCEPT !.v = SubSeq(s, i + 1, j - 1)], FALSE)

RECURSIVE Utf8(_)
\* bytes(codes).decode('utf-8'): the characters, or <<EOF>> for a
\* UnicodeDecodeError.
Utf8(codes) ==
    LET c == codes[1]
        n == IF c < 128 THEN 1
             ELSE IF c \in 194..223 THEN 2
             ELSE IF c \in 224..239 THEN 3
             ELSE IF c \in 240..244 THEN 4
             ELSE 0
        second == IF c = 224 THEN 160..191
                  ELSE IF c = 237 THEN 128..159
                  ELSE IF c = 240 THEN 144..191
                  ELSE IF c = 244 THEN 128..143
                  ELSE 128..191
        code == IF n = 1 THEN c
                ELSE IF n = 2 THEN (c - 192) * 64 + (codes[2] - 128)
                ELSE IF n = 3 THEN (c - 224) * 4096 + (codes[2] - 128) * 64 + (codes[3] - 128)
                ELSE MaxCode
        rest == Utf8(SubSeq(codes, n + 1, Len(codes)))
    IN  IF codes = <<>> THEN <<>>
        ELSE IF n = 0 \/ Len(codes) < n THEN <<EOF>>
        ELSE IF n >= 2 /\ codes[2] \notin second THEN <<EOF>>
        ELSE IF \E k \in 3..n : codes[k] \notin 128..191 THEN <<EOF>>
        ELSE IF rest = <<EOF>> THEN rest
        ELSE <<Chr(code)>> \o rest

RECURSIVE ScanUriEscapes(_, _, _)
\* scan_uri_escapes: the place after the escapes at i and their bytes.
ScanUriEscapes(s, i, codes) ==
    IF At(s, i) # "%" THEN [i |-> i, codes |-> codes, err |-> ""]
    ELSE IF At(s, i + 1) \notin Hex \/ At(s, i + 2) \notin Hex
      THEN [i |-> i, codes |-> codes, err |-> "YAMLError"]
    ELSE ScanUriEscapes(s, i + 3,
             Append(codes, Self("HexDigitVal", <<s[i + 1]>>) * 16 + Self("HexDigitVal", <<s[i + 2]>>)))

UriChars ==
    Digits \cup Letters \cup
    {"-", ";", "/", "?", ":", "@", "&", "=", "+", "$", ",", "_", ".", "!", "~",
     "*", "'", "(", ")", "[", "]", "%"}

RECURSIVE ScanTagUri(_, _, _, _)
\* scan_tag_uri: the place after the URI at i and its characters, v being
\* those read and any telling whether a character was read.
ScanTagUri(s, i, v, any) ==
    IF At(s, i) \notin UriChars
      THEN [i |-> i, v |-> v, err |-> IF any THEN "" ELSE "YAMLError"]
    ELSE IF s[i] = "%"
      THEN LET e == ScanUriEscapes(s, i, <<>>)
               d == Utf8(e.codes)
           IN  IF e.err # "" \/ d = <<EOF>> THEN [i |-> i, v |-> v, err |-> "YAMLError"]
               ELSE Self("ScanTagUri", <<s, e.i, v \o d, TRUE>>)
    ELSE Self("ScanTagUri", <<s, i + 1, Append(v, s[i]), TRUE>>)

\* scan_tag_handle: the place after the handle at i and its characters.
ScanTagHandle(s, i) ==
    IF At(s, i) # "!" THEN [i |-> i, v |-> <<>>, err |-> "YAMLError"]
    ELSE IF At(s, i + 1) = " " THEN [i |-> i + 1, v |-> <<"!">>, err |-> ""]
    ELSE LET j == SkipWhile(s, i + 1, AlNum)
         IN  IF At(s, j) # "!" THEN [i |-> j, v |-> <<>>, err |-> "YAMLError"]
             ELSE [i |-> j + 1, v |-> SubSeq(s, i, j), err |-> ""]

\* scan_tag; the handle None is written <<>>.
ScanTag(s, i) ==
    LET ch == At(s, i + 1)
        stop == SkipUntil(s, i + 1, SpaceBreakZ \cup {"!"})
        h == IF ch = "<" \/ ch \in BlankZ THEN [i |-> i, v |-> <<>>, err |-> ""]
             ELSE IF At(s, stop) = "!" THEN Self("ScanTagHandle", <<s, i>>)
             ELSE [i |-> i + 1, v |-> <<"!">>, err |-> ""]
        u == IF ch = "<" THEN Self("ScanTagUri", <<s, i + 2, <<>>, FALSE>>)
             ELSE IF ch \in BlankZ THEN [i |-> i + 1, v |-> <<"!">>, err |-> ""]
             ELSE IF h.err # "" THEN h
             ELSE Self("ScanTagUri", <<s, h.i, <<>>, FALSE>>)
        j == IF ch = "<" THEN u.i + 1 ELSE u.i
    IN  IF u.err # "" THEN ScanError("YAMLError")
        ELSE IF ch = "<" /\ At(s, u.i) # ">" THEN ScanError("YAMLError")
        ELSE IF At(s, j) \notin SpaceBreakZ THEN ScanError("YAMLError")
        ELSE Scanned(j, [Token("tag") EXCEPT !.a = h.v, !.b = u.v], FALSE)

\* scan_directive_ignored_line, and scan_block_scalar_ignored_line which
\* is the same: the place after the line that ends at or after i, 0 when
\* something other than a comment is on it.
IgnoredLine(s, i) ==
    LET a == SkipWhile(s, i, {" "})
        b == IF At(s, a) = "#" THEN SkipUntil(s, a, BreakZ) ELSE a
    IN  IF At(s, b) \notin BreakZ THEN 0 ELSE ScanLineBreak(s, b)

\* scan_directive_ignored_line from k on, and the directive token tok.
DirectiveEnd(s, k, tok) ==
    IF Self("IgnoredLine", <<s, k>>) = 0 THEN ScanError("YAMLError")
    ELSE Scanned(Self("IgnoredLine", <<s, k>>), tok, FALSE)

\* scan_directive
ScanDirective(s, i) ==
    LET j == SkipWhile(s, i + 1, AlNum)
        name == SubSeq(s, i + 1, j - 1)
        \* scan_yaml_directive_value
        m1 == SkipWhile(s, j, {" "})
        m2 == SkipWhile(s, m1, Digits)
        m3 == SkipWhile(s, m2 + 1, Digits)
        \* scan_tag_directive_value
        t1 == SkipWhile(s, j, {" "})
        h == Self("ScanTagHandle", <<s, t1>>)
        t2 == SkipWhile(s, h.i, {" "})
        p == Self("ScanTagUri", <<s, t2, <<>>, FALSE>>)
        tok == [Token("directive") EXCEPT !.v = name]
    IN  IF j = i + 1 \/ At(s, j) \notin SpaceBreakZ THEN ScanError("YAMLError")
        ELSE IF name = <<"Y", "A", "M", "L">>
          THEN IF m2 = m1 \/ At(s, m2) # "." \/ m3 = m2 + 1
                    \/ At(s, m3) \notin SpaceBreakZ
                 THEN ScanError("YAMLError")
                 ELSE DirectiveEnd(s, m3, [tok EXCEPT !.a = SubSeq(s, m1, m2 - 1),
                                                      !.b = SubSeq(s, m2 + 1, m3 - 1)])
        ELSE IF name = <<"T", "A", "G">>
          THEN IF h.err # "" \/ At(s, h.i) # " " \/ p.err # ""
                    \/ At(s, p.i) \notin SpaceBreakZ
                 THEN ScanError("YAMLError")
                 ELSE DirectiveEnd(s, p.i, [tok EXCEPT !.a = h.v, !.b = p.v])
        ELSE DirectiveEnd(s, SkipUntil(s, j, BreakZ), tok)

RECURSIVE ScanFlowScalarBreaks(_, _, _)
\* scan_flow_scalar_breaks
ScanFlowScalarBreaks(s, i, v) ==
    LET j == SkipWhile(s, i, {" ", "\t"})
    IN  IF DocumentSeparator(s, i) THEN [i |-> i, v |-> v, err |-> "YAMLError"]
        ELSE IF At(s, j) \in LineBreaks
          THEN Self("ScanFlowScalarBreaks", <<s, ScanLineBreak(s, j), Append(v, "\n")>>)
        ELSE [i |-> j, v |-> v, err |-> ""]

\* ESCAPE_REPLACEMENTS
EscapeReplacements ==
    {<<"0", 0>>, <<"a", 7>>, <<"b", 8>>, <<"t", 9>>, <<"\t", 9>>, <<"n", 10>>,
     <<"v", 11>>, <<"f", 12>>, <<"r", 13>>, <<"e", 27>>, <<" ", 32>>,
     <<"\"", 34>>, <<"\\", 92>>, <<"/", 47>>, <<"N", 133>>, <<"_", 160>>,
     <<"L", 8232>>, <<"P", 8233>>}

\* ESCAPE_CODES
EscapeCodes(ch) == CASE ch = "x" -> 2 [] ch = "u" -> 4 [] ch = "U" -> 8 [] OTHER -> 0

RECURSIVE ScanFlowScalarNonSpaces(_, _, _, _)
\* scan_flow_scalar_non_spaces
ScanFlowScalarNonSpaces(s, i, double, v) ==
    LET j == SkipUntil(s, i, BlankZ \cup {"'", "\"", "\\"})
        w == v \o SubSeq(s, i, j - 1)
        ch == At(s, j)
        e == At(s, j + 1)
        n == EscapeCodes(e)
        code == HexVal(SubSeq(s, j + 2, j + 1 + n), 0)
        br == Self("ScanFlowScalarBreaks", <<s, ScanLineBreak(s, j + 1), <<>>>>)
    IN  IF ~double /\ ch = "'" /\ e = "'"
          THEN Self("ScanFlowScalarNonSpaces", <<s, j + 2, double, Append(w, "'")>>)
        ELSE IF (double /\ ch = "'") \/ (~double /\ ch \in {"\"", "\\"})
          THEN Self("ScanFlowScalarNonSpaces", <<s, j + 1, double, Append(w, ch)>>)
        ELSE IF double /\ ch = "\\"
          THEN IF \E r \in EscapeReplacements : r[1] = e
                 THEN Self("ScanFlowScalarNonSpaces", <<s, j + 2, double,
                          Append(w, Chr((CHOOSE r \in EscapeReplacements : r[1] = e)[2]))>>)
               ELSE IF n > 0
                 THEN IF \E k \in 0..(n - 1) : At(s, j + 2 + k) \notin Hex
                        THEN [i |-> j, v |-> w, err |-> "YAMLError"]
                      ELSE IF code > MaxCode
                        THEN [i |-> j, v |-> w,
                              err |-> IF n = 8 /\ Self("HexDigitVal", <<At(s, j + 2)>>) >= 8
                                        THEN "OverflowError" ELSE "ValueError"]
                      ELSE Self("ScanFlowScalarNonSpaces", <<s, j + 2 + n, double,
                                                   Append(w, Chr(code))>>)
               ELSE IF e \in LineBreaks
                 THEN IF br.err # "" THEN br
                      ELSE Self("ScanFlowScalarNonSpaces", <<s, br.i, double, w \o br.v>>)
               ELSE [i |-> j, v |-> w, err |-> "YAMLError"]
        ELSE [i |-> j, v |-> w, err |-> ""]

\* scan_flow_scalar_spaces
ScanFlowScalarSpaces(s, i) ==
    LET j == SkipWhile(s, i, {" ", "\t"})
        br == Self("ScanFlowScalarBreaks", <<s, ScanLineBreak(s, j), <<>>>>)
    IN  IF At(s, j) = EOF THEN [i |-> j, v |-> <<>>, err |-> "YAMLError"]
        ELSE IF At(s, j) \in LineBreaks
          THEN IF br.err # "" THEN br
               ELSE [br EXCEPT !.v = IF @ = <<>> THEN <<" ">> ELSE @]
        ELSE [i |-> j, v |-> SubSeq(s, i, j - 1), err |-> ""]

RECURSIVE ScanFlowScalarRest(_, _, _, _)
\* The loop of scan_flow_scalar, r being what the last
\* scan_flow_scalar_non_spaces gave.
ScanFlowScalarRest(s, quote, double, r) ==
    IF r.err # "" THEN ScanError(r.err)
    ELSE IF At(s, r.i) = quote THEN Scanned(r.i + 1, ScalarToken(r.v, FALSE), FALSE)
    ELSE LET sp == Self("ScanFlowScalarSpaces", <<s, r.i>>)
         IN  IF sp.err # "" THEN ScanError(sp.err)
             ELSE ScanFlowScalarRest(s, quote, double,
                      Self("ScanFlowScalarNonSpaces", <<s, sp.i, double, r.v \o sp.v>>))

\* scan_flow_scalar
ScanFlowScalar(s, i) ==
    ScanFlowScalarRest(s, s[i], s[i] = "\"",
                       Self("ScanFlowScalarNonSpaces", <<s, i + 1, s[i] = "\"", <<>>>>))

RECURSIVE ScanPlainLength(_, _, _)
\* The place where the inner loop of scan_plain stops.
ScanPlainLength(s, i, flow) ==
    LET ch == At(s, i)
    IN  IF \/ ch \in BlankZ
           \/ /\ ch = ":"
              /\ At(s, i + 1) \in BlankZ \cup (IF flow THEN {",", "[", "]", "{", "}"} ELSE {})
           \/ flow /\ ch \in {",", "?", "[", "]", "{", "}"}
          THEN i
          ELSE ScanPlainLength(s, i + 1, flow)

RECURSIVE ScanPlainBreaks(_, _, _)
\* The second loop of scan_plain_spaces; none tells that a document
\* separator ended it.
ScanPlainBreaks(s, i, v) ==
    IF At(s, i) = " " THEN ScanPlainBreaks(s, i + 1, v)
    ELSE IF At(s, i) \in LineBreaks
      THEN IF DocumentSeparator(s, ScanLineBreak(s, i))
             THEN [i |-> ScanLineBreak(s, i), v |-> <<>>, none |-> TRUE]
             ELSE ScanPlainBreaks(s, ScanLineBreak(s, i), Append(v, "\n"))
    ELSE [i |-> i, v |-> v, none |-> FALSE]

\* scan_plain_spaces; crossed tells that a line break was passed.
ScanPlainSpaces(s, i) ==
    LET j == SkipWhile(s, i, {" "})
        k == ScanLineBreak(s, j)
        br == ScanPlainBreaks(s, k, <<>>)
    IN  IF k # j
          THEN IF DocumentSeparator(s, k)
                 THEN [i |-> k, v |-> <<>>, crossed |-> TRUE]
               ELSE IF br.none THEN [i |-> br.i, v |-> <<>>, crossed |-> TRUE]
               ELSE [i |-> br.i, v |-> IF br.v = <<>> THEN <<" ">> ELSE br.v,
                     crossed |-> TRUE]
        ELSE [i |-> j, v |-> SubSeq(s, i, j - 1), crossed |-> FALSE]

RECURSIVE ScanPlainLoop(_, _, _, _, _, _, _)
\* The outer loop of scan_plain.
ScanPlainLoop(s, i, flow, indent, chunks, spaces, allow) ==
    LET j == ScanPlainLength(s, i, flow)
        sp == Self("ScanPlainSpaces", <<s, j>>)
        v == chunks \o spaces \o SubSeq(s, i, j - 1)
    IN  IF At(s, i) = "#" \/ j = i
          THEN Scanned(i, ScalarToken(chunks, TRUE), allow)
        ELSE IF sp.v = <<>> \/ At(s, sp.i) = "#"
                \/ (~flow /\ Column(s, sp.i) < indent)
          THEN Scanned(sp.i, ScalarToken(v, TRUE), sp.crossed)
        ELSE ScanPlainLoop(s, sp.i, flow, indent, v, sp.v, sp.crossed)

\* scan_plain
ScanPlain(s, st) ==
    ScanPlainLoop(s, st.i, st.flow_level # 0, st.indent + 1, <<>>, <<>>, FALSE)

\* scan_block_scalar_indicators: chomping ("" for None, "+" for True, "-"
\* for False), the increment (0 for None) and the place after them.
ScanBlockScalarIndicators(s, i) ==
    LET a == At(s, i)
        b == At(s, i + 1)
        r == IF a \in {"+", "-"}
               THEN IF b \in Digits
                      THEN [chomping |-> a, digit |-> b, i |-> i + 2]
                      ELSE [chomping |-> a, digit |-> "", i |-> i + 1]
             ELSE IF a \in Digits
               THEN IF a # "0" /\ b \in {"+", "-"}
                      THEN [chomping |-> b, digit |-> a, i |-> i + 2]
                      ELSE [chomping |-> "", digit |-> a, i |-> i + 1]
             ELSE [chomping |-> "", digit |-> "", i |-> i]
    IN  [chomping |-> r.chomping, i |-> r.i,
         increment |-> IF r.digit = "" THEN 0 ELSE Self("HexDigitVal", <<r.digit>>),
         err |-> IF r.digit = "0" \/ At(s, r.i) \notin SpaceBreakZ
                   THEN "YAMLError" ELSE ""]

RECURSIVE ScanBlockScalarIndentation(_, _, _, _)
\* scan_block_scalar_indentation
ScanBlockScalarIndentation(s, i, breaks, max_indent) ==
    IF At(s, i) = " "
      THEN Self("ScanBlockScalarIndentation", <<s, i + 1, breaks,
               IF Column(s, i + 1) > max_indent THEN Column(s, i + 1) ELSE max_indent>>)
    ELSE IF At(s, i) \in LineBreaks
      THEN Self("ScanBlockScalarIndentation", <<s, ScanLineBreak(s, i), Append(breaks, "\n"),
                                      max_indent>>)
    ELSE [i |-> i, breaks |-> breaks, max_indent |-> max_indent]

RECURSIVE ScanBlockScalarBreaks(_, _, _, _)
\* scan_block_scalar_breaks
ScanBlockScalarBreaks(s, i, indent, breaks) ==
    IF Column(s, i) < indent /\ At(s, i) = " "
      THEN Self("ScanBlockScalarBreaks", <<s, i + 1, indent, breaks>>)
    ELSE IF At(s, i) \in LineBreaks
      THEN Self("ScanBlockScalarBreaks", <<s, ScanLineBreak(s, i), indent, Append(breaks, "\n")>>)
    ELSE [i |-> i, breaks |-> breaks]

RECURSIVE ScanBlockScalarLines(_, _, _, _, _, _)
\* The loop of scan_block_scalar and what follows it, br being what the
\* last scan of breaks gave and line_break the last line break.
ScanBlockScalarLines(s, folded, chomping, indent, chunks, br) ==
    LET i == br.i
        j == SkipUntil(s, i, BreakZ)
        k == ScanLineBreak(s, j)
        line_break == IF k # j THEN <<"\n">> ELSE <<>>
        next == Self("ScanBlockScalarBreaks", <<s, k, indent, <<>>>>)
        text == chunks \o br.breaks \o SubSeq(s, i, j - 1)
        more == Column(s, next.i) = indent /\ At(s, next.i) # EOF
        joined == IF folded /\ line_break # <<>> /\ At(s, i) \notin {" ", "\t"}
                        /\ At(s, next.i) \notin {" ", "\t"}
                    THEN IF next.breaks = <<>> THEN <<" ">> ELSE <<>>
                    ELSE line_break
        final == IF chomping = "-" THEN <<>> ELSE line_break
        kept == IF chomping = "+" THEN next.breaks ELSE <<>>
    IN  IF more
          THEN ScanBlockScalarLines(s, folded, chomping, indent, text \o joined, next)
          ELSE Scanned(next.i, ScalarToken(text \o final \o kept, FALSE), TRUE)

\* scan_block_scalar
ScanBlockScalar(s, st) ==
    LET ind == Self("ScanBlockScalarIndicators", <<s, st.i + 1>>)
        i == Self("IgnoredLine", <<s, ind.i>>)
        min_indent == IF st.indent + 1 < 1 THEN 1 ELSE st.indent + 1
        auto == Self("ScanBlockScalarIndentation", <<s, i, <<>>, 0>>)
        indent == IF ind.increment = 0
                    THEN IF min_indent > auto.max_indent THEN min_indent
                                                         ELSE auto.max_indent
                    ELSE min_indent + ind.increment - 1
        br == IF ind.increment = 0 THEN [i |-> auto.i, breaks |-> auto.breaks]
              ELSE Self("ScanBlockScalarBreaks", <<s, i, indent, <<>>>>)
    IN  IF ind.err # "" \/ i = 0 THEN ScanError("YAMLError")
        ELSE IF Column(s, br.i) = indent /\ At(s, br.i) # EOF
          THEN ScanBlockScalarLines(s, s[st.i] = ">", ind.chomping,
                                    indent, <<>>, br)
        ELSE Scanned(br.i,
                     ScalarToken(IF ind.chomping = "+" THEN br.breaks ELSE <<>>, FALSE),
                     TRUE)

\* fetch_alias, fetch_anchor, fetch_tag, fetch_flow_scalar, fetch_plain:
\* the token may be a simple key.
FetchKeyable(s, st, r) ==
    LET k == Self("SavePossibleSimpleKey", <<s, st>>)
    IN  IF k.err # "" THEN k ELSE Scan(k, r)

\* fetch_directive
FetchDirective(s, st) ==
    LET r == RemovePossibleSimpleKey(UnwindIndent(st, -1))
    IN  IF r.err # "" THEN r ELSE Scan(r, ScanDirective(s, st.i))

\* fetch_block_scalar
FetchBlockScalar(s, st) ==
    LET r == RemovePossibleSimpleKey(st)
    IN  IF r.err # "" THEN r ELSE Scan(r, ScanBlockScalar(s, st))

\* check_plain
CheckPlain(s, st) ==
    LET ch == At(s, st.i)
    IN  \/ ch \notin BlankZ \cup {"-", "?", ":", ",", "[", "]", "{", "}", "#", "&",
                                  "*", "!", "|", ">", "'", "\"", "%", "@", Tick}
        \/ /\ At(s, st.i + 1) \notin BlankZ
           /\ (ch = "-" \/ (st.flow_level = 0 /\ ch \in {"?", ":"}))

\* fetch_more_tokens
FetchMoreTokens(s, st0) ==
    LET st1 == Self("StalePossibleSimpleKeys", <<s, Self("ScanToNextToken", <<s, st0>>)>>)
        st == UnwindIndent(st1, Column(s, st1.i))
        ch == At(s, st.i)
        column == Column(s, st.i)
    IN  IF st1.err # "" THEN st1
        ELSE IF ch = EOF THEN FetchStreamEnd(st)
        ELSE IF ch = "%" /\ column = 0 THEN FetchDirective(s, st)
        ELSE IF ch = "-" /\ column = 0 /\ DocumentSeparator(s, st.i)
          THEN FetchDocumentIndicator(st, "document-start")
        ELSE IF ch = "." /\ column = 0 /\ DocumentSeparator(s, st.i)
          THEN FetchDocumentIndicator(st, "document-end")
        ELSE IF ch = "[" THEN FetchFlowCollectionStart(s, st, "flow-sequence-start")
        ELSE IF ch = "{" THEN FetchFlowCollectionStart(s, st, "flow-mapping-start")
        ELSE IF ch = "]" THEN FetchFlowCollectionEnd(st, "flow-sequence-end")
        ELSE IF ch = "}" THEN FetchFlowCollectionEnd(st, "flow-mapping-end")
        ELSE IF ch = "," THEN FetchFlowEntry(st)
        ELSE IF ch = "-" /\ At(s, st.i + 1) \in BlankZ THEN FetchBlockEntry(s, st)
        ELSE IF ch = "?" /\ (st.flow_level # 0 \/ At(s, st.i + 1) \in BlankZ)
          THEN FetchKey(s, st)
        ELSE IF ch = ":" /\ (st.flow_level # 0 \/ At(s, st.i + 1) \in BlankZ)
          THEN FetchValue(s, st)
        ELSE IF ch = "*" THEN FetchKeyable(s, st, ScanAnchor(s, st.i, "alias"))
        ELSE IF ch = "&" THEN FetchKeyable(s, st, ScanAnchor(s, st.i, "anchor"))
        ELSE IF ch = "!" THEN FetchKeyable(s, st, ScanTag(s, st.i))
        ELSE IF ch \in {"|", ">"} /\ st.flow_level = 0 THEN FetchBlockScalar(s, st)
        ELSE IF ch \in {"'", "\""} THEN FetchKeyable(s, st, ScanFlowScalar(s, st.i))
        ELSE IF CheckPlain(s, st) THEN FetchKeyable(s, st, ScanPlain(s, st))
        ELSE Raise(st, "YAMLError")

\* need_more_tokens
NeedMoreTokens(s, st) ==
    /\ ~st.done
    /\ \/ st.tokens = <<>>
       \/ \E k \in Self("StalePossibleSimpleKeys", <<s, st>>).possible_simple_keys :
              k.token_number = st.tokens_taken

RECURSIVE Tokens(_, _)
\* `while self.need_more_tokens(): self.fetch_more_tokens()`, with which
\* check_token, peek_token and get_token begin.
Tokens(s, st) ==
    IF st.err # "" THEN st
    ELSE IF st.done THEN st
    ELSE IF st.tokens = <<>> THEN Self("Tokens", <<s, Self("FetchMoreTokens", <<s, st>>)>>)
    ELSE LET r == Self("StalePossibleSimpleKeys", <<s, st>>)
         IN  IF r.err # "" THEN r
             ELSE IF \E k \in r.possible_simple_keys : k.token_number = r.tokens_taken
               THEN Self("Tokens", <<s, Self("FetchMoreTokens", <<s, r>>)>>)
             ELSE r

\* check_token(t1, t2, ...) once the tokens are there.
CheckToken(st, ts) == st.tokens # <<>> /\ st.tokens[1].t \in ts

\* get_token once the tokens are there.
GetToken(st) == [st EXCEPT !.tokens = Tail(@), !.tokens_taken = @ + 1]

\* ---------------------------------------------------------------------
\* yaml.safe_load: the parser (yaml/parser.py).
\* ---------------------------------------------------------------------

\* An event; the anchor None and the tag None are written <<>>, and the one
\* flag of a collection is the first of implicit.
Event(e) ==
    [e |-> e, anchor |-> <<>>, tag |-> <<>>, implicit |-> <<FALSE, FALSE>>,
     value |-> <<>>]

NodeEvent(e, anchor, tag, implicit, value) ==
    [e |-> e, anchor |-> anchor, tag |-> tag, implicit |-> implicit, value |-> value]

\* process_empty_scalar
EmptyScalar == NodeEvent("scalar", <<>>, <<>>, <<TRUE, FALSE>>, <<>>)

\* The characters of 'tag:yaml.org,2002:'.
YamlOrg ==
    <<"t", "a", "g", ":", "y", "a", "m", "l", ".", "o", "r", "g", ",",
      "2", "0", "0", "2", ":">>

\* DEFAULT_TAGS
DefaultTags == {<<(<<"!">>), (<<"!">>)>>, <<(<<"!", "!">>), YamlOrg>>}

\* Parser.__init__ on the loader of the scanner.
ParserInit ==
    [state |-> "stream_start", states |-> <<>>, tag_handles |-> {},
     yaml_version |-> FALSE, event |-> Event("none")]

\* The state function returns event and leaves state as the next one.
Emit(st, event, state) == [st EXCEPT !.event = event, !.state = state]

\* `self.state = self.states.pop()` with the event returned.
EmitPop(st, event) ==
    [st EXCEPT !.event = event, !.state = st.states[Len(st.states)],
               !.states = SubSeq(@, 1, Len(@) - 1)]

\* `self.states.append(state)`
PushState(st, state) == [st EXCEPT !.states = Append(@, state)]

\* parse_node once the anchor and the tag of the node are read: a4 is at the
\* token that follows them.
ParseContent(a4, anchor, tag, block, indentless_sequence) ==
    LET t == IF a4.tokens = <<>> THEN "none" ELSE a4.tokens[1].t
        implicit == tag = <<>> \/ tag = <<"!">>
        start(e, state) ==
            Emit(a4, NodeEvent(e, anchor, tag, <<implicit, FALSE>>, <<>>), state)
    IN  IF a4.err # "" THEN a4
        ELSE IF indentless_sequence /\ t = "block-entry"
          THEN start("sequence-start", "indentless_sequence_entry")
        ELSE IF t = "scalar"
          THEN EmitPop(GetToken(a4),
                   NodeEvent("scalar", anchor, tag,
                             IF (a4.tokens[1].plain /\ tag = <<>>) \/ tag = <<"!">>
                               THEN <<TRUE, FALSE>>
                             ELSE IF tag = <<>> THEN <<FALSE, TRUE>>
                             ELSE <<FALSE, FALSE>>,
                             a4.tokens[1].v))
        ELSE IF t = "flow-sequence-start"
          THEN start("sequence-start", "flow_sequence_first_entry")
        ELSE IF t = "flow-mapping-start"
          THEN start("mapping-start", "flow_mapping_first_key")
        ELSE IF block /\ t = "block-sequence-start"
          THEN start("sequence-start", "block_sequence_first_entry")
        ELSE IF block /\ t = "block-mapping-start"
          THEN start("mapping-start", "block_mapping_first_key")
        ELSE IF anchor # <<>> \/ tag # <<>>
          THEN EmitPop(a4, NodeEvent("scalar", anchor, tag, <<implicit, FALSE>>, <<>>))
        ELSE Raise(a4, "YAMLError")

\* parse_node where the node begins with an anchor or a tag: a0 is at that
\* token, a1 at the one after it, which is the other of the two or not.
ParseProperties(s, st, a0, a1, block, indentless_sequence) ==
    LET first == a0.tokens[1].t
        second == IF a1.tokens = <<>> THEN "none" ELSE a1.tokens[1].t
        both == \/ first = "anchor" /\ second = "tag"
                \/ first = "tag" /\ second = "anchor"
        a3 == IF both THEN GetToken(a1) ELSE a1
        anchor == IF first = "anchor" THEN a0.tokens[1].v
                  ELSE IF both THEN a1.tokens[1].v
                  ELSE <<>>
        tagged == first = "tag" \/ both
        tk == IF first = "tag" THEN a0.tokens[1] ELSE a1.tokens[1]
        known == {h \in st.tag_handles : h[1] = tk.a}
        tag == IF ~tagged THEN <<>>
               ELSE IF tk.a = <<>> THEN tk.b
               ELSE (CHOOSE h \in known : TRUE)[2] \o tk.b
    IN  IF a1.err # "" THEN a1
        ELSE IF tagged /\ tk.a # <<>> /\ known = {} THEN Raise(a3, "YAMLError")
        ELSE ParseContent(Self("Tokens", <<s, a3>>), anchor, tag, block, indentless_sequence)

\* parse_node at its first token, a0 being there.
ParseFirstToken(s, st, a0, block, indentless_sequence) ==
    LET first == IF a0.tokens = <<>> THEN "none" ELSE a0.tokens[1].t
    IN  IF a0.err # "" THEN a0
        ELSE IF first = "alias"
          THEN EmitPop(GetToken(a0),
                         NodeEvent("alias", a0.tokens[1].v, <<>>, <<FALSE, FALSE>>, <<>>))
        ELSE IF first \in {"anchor", "tag"}
          THEN ParseProperties(s, st, a0, Self("Tokens", <<s, GetToken(a0)>>), block,
                               indentless_sequence)
        ELSE ParseContent(Self("Tokens", <<s, a0>>), <<>>, <<>>, block, indentless_sequence)

\* parse_node
ParseNode(s, st, block, indentless_sequence) ==
    ParseFirstToken(s, st, Self("Tokens", <<s, st>>), block, indentless_sequence)

\* parse_block_node, parse_flow_node,
\* parse_block_node_or_indentless_sequence
ParseBlockNode(s, st) == Self("ParseNode", <<s, st, TRUE, FALSE>>)
ParseFlowNode(s, st) == Self("ParseNode", <<s, st, FALSE, FALSE>>)
ParseBlockNodeOrIndentlessSequence(s, st) == Self("ParseNode", <<s, st, TRUE, TRUE>>)

\* parse_stream_start
ParseStreamStart(s, st) ==
    LET a == Self("Tokens", <<s, st>>)
    IN  IF a.err # "" THEN a
        ELSE Emit(GetToken(a), Event("stream-start"), "implicit_document_start")

RECURSIVE StripZeros(_)
\* The digits of a number without the zeros it begins with.
StripZeros(digits) ==
    IF Len(digits) > 1 /\ digits[1] = "0" THEN StripZeros(Tail(digits)) ELSE digits

RECURSIVE ProcessDirectives(_, _)
\* The loop of process_directives.
ProcessDirectives(s, st) ==
    LET a == Self("Tokens", <<s, st>>)
        tok == a.tokens[1]
    IN  IF a.err # "" THEN a
        ELSE IF ~CheckToken(a, {"directive"}) THEN a
        ELSE IF tok.v = <<"Y", "A", "M", "L">>
          THEN IF a.yaml_version \/ StripZeros(tok.a) # <<"1">> THEN Raise(a, "YAMLError")
               ELSE Self("ProcessDirectives", <<s, [GetToken(a) EXCEPT !.yaml_version = TRUE]>>)
        ELSE IF tok.v = <<"T", "A", "G">>
          THEN IF \E h \in a.tag_handles : h[1] = tok.a THEN Raise(a, "YAMLError")
               ELSE Self("ProcessDirectives", <<s, [GetToken(a) EXCEPT
                        !.tag_handles = @ \cup {<<tok.a, tok.b>>}]>>)
        ELSE Self("ProcessDirectives", <<s, GetToken(a)>>)

RECURSIVE ParseDocumentStart(_, _)
\* parse_document_start
ParseDocumentStart(s, st) ==
    LET a == Self("Tokens", <<s, st>>)
        d == Self("ProcessDirectives", <<s, [a EXCEPT !.yaml_version = FALSE, !.tag_handles = {}]>>)
        handles == d.tag_handles \cup
                   {h \in DefaultTags : \A g \in d.tag_handles : g[1] # h[1]}
    IN  IF a.err # "" THEN a
        ELSE IF CheckToken(a, {"document-end"}) THEN ParseDocumentStart(s, GetToken(a))
        ELSE IF CheckToken(a, {"stream-end"})
          THEN Emit(GetToken(a), Event("stream-end"), "none")
        ELSE IF d.err # "" THEN d
        ELSE IF ~CheckToken(d, {"document-start"}) THEN Raise(d, "YAMLError")
        ELSE Emit(PushState([GetToken(d) EXCEPT !.tag_handles = handles],
                              "document_end"),
                    Event("document-start"), "document_content")

\* parse_implicit_document_start
ParseImplicitDocumentStart(s, st) ==
    LET a == Self("Tokens", <<s, st>>)
    IN  IF a.err # "" THEN a
        ELSE IF CheckToken(a, {"directive", "document-start", "stream-end"})
          THEN ParseDocumentStart(s, a)
        ELSE Emit(PushState([a EXCEPT !.tag_handles = DefaultTags], "document_end"),
                    Event("document-start"), "block_node")

\* parse_document_end
ParseDocumentEnd(s, st) ==
    LET a == Self("Tokens", <<s, st>>)
    IN  IF a.err # "" THEN a
        ELSE Emit(IF CheckToken(a, {"document-end"}) THEN GetToken(a) ELSE a,
                    Event("document-end"), "document_start")

\* parse_document_content
ParseDocumentContent(s, st) ==
    LET a == Self("Tokens", <<s, st>>)
    IN  IF a.err # "" THEN a
        ELSE IF CheckToken(a, {"directive", "document-start", "document-end",
                               "stream-end"})
          THEN EmitPop(a, EmptyScalar)
        ELSE ParseBlockNode(s, a)

\* An entry or a key or a value of a collection: after the token that
\* announces it, the node when none of the tokens in empty follows, and the
\* empty scalar otherwise; next is the state after it.
ParseAfter(s, st, empty, next, flow, indentless) ==
    LET a == Self("Tokens", <<s, GetToken(st)>>)
    IN  IF a.err # "" THEN a
        ELSE IF CheckToken(a, empty) THEN Emit(a, EmptyScalar, next)
        ELSE Self("ParseNode", <<s, PushState(a, next), ~flow, indentless>>)

\* parse_block_sequence_entry
ParseBlockSequenceEntry(s, st) ==
    LET a == Self("Tokens", <<s, st>>)
    IN  IF a.err # "" THEN a
        ELSE IF CheckToken(a, {"block-entry"})
          THEN ParseAfter(s, a, {"block-entry", "block-end"}, "block_sequence_entry",
                          FALSE, FALSE)
        ELSE IF ~CheckToken(a, {"block-end"}) THEN Raise(a, "YAMLError")
        ELSE EmitPop(GetToken(a), Event("sequence-end"))

\* parse_indentless_sequence_entry
ParseIndentlessSequenceEntry(s, st) ==
    LET a == Self("Tokens", <<s, st>>)
    IN  IF a.err # "" THEN a
        ELSE IF CheckToken(a, {"block-entry"})
          THEN ParseAfter(s, a, {"block-entry", "key", "value", "block-end"},
                          "indentless_sequence_entry", FALSE, FALSE)
        ELSE EmitPop(a, Event("sequence-end"))

\* parse_block_mapping_key
ParseBlockMappingKey(s, st) ==
    LET a == Self("Tokens", <<s, st>>)
    IN  IF a.err # "" THEN a
        ELSE IF CheckToken(a, {"key"})
          THEN ParseAfter(s, a, {"key", "value", "block-end"}, "block_mapping_value",
                          FALSE, TRUE)
        ELSE IF ~CheckToken(a, {"block-end"}) THEN Raise(a, "YAMLError")
        ELSE EmitPop(GetToken(a), Event("mapping-end"))

\* parse_block_mapping_value
ParseBlockMappingValue(s, st) ==
    LET a == Self("Tokens", <<s, st>>)
    IN  IF a.err # "" THEN a
        ELSE IF CheckToken(a, {"value"})
          THEN ParseAfter(s, a, {"key", "value", "block-end"}, "block_mapping_key",
                          FALSE, TRUE)
        ELSE Emit(a, EmptyScalar, "block_mapping_key")

\* parse_flow_sequence_entry
ParseFlowSequenceEntry(s, st, first) ==
    LET a == Self("Tokens", <<s, st>>)
        b == IF first THEN a ELSE Self("Tokens", <<s, GetToken(a)>>)
    IN  IF a.err # "" THEN a
        ELSE IF CheckToken(a, {"flow-sequence-end"})
          THEN EmitPop(GetToken(a), Event("sequence-end"))
        ELSE IF ~first /\ ~CheckToken(a, {"flow-entry"}) THEN Raise(a, "YAMLError")
        ELSE IF b.err # "" THEN b
        ELSE IF CheckToken(b, {"key"})
          THEN Emit(b, NodeEvent("mapping-start", <<>>, <<>>, <<TRUE, FALSE>>, <<>>),
                      "flow_sequence_entry_mapping_key")
        ELSE IF CheckToken(b, {"flow-sequence-end"})
          THEN EmitPop(GetToken(b), Event("sequence-end"))
        ELSE ParseFlowNode(s, PushState(b, "flow_sequence_entry"))

\* parse_flow_sequence_entry_mapping_key
ParseFlowSequenceEntryMappingKey(s, st) ==
    ParseAfter(s, st, {"value", "flow-entry", "flow-sequence-end"},
               "flow_sequence_entry_mapping_value", TRUE, FALSE)

\* parse_flow_sequence_entry_mapping_value
ParseFlowSequenceEntryMappingValue(s, st) ==
    LET a == Self("Tokens", <<s, st>>)
    IN  IF a.err # "" THEN a
        ELSE IF CheckToken(a, {"value"})
          THEN ParseAfter(s, a, {"flow-entry", "flow-sequence-end"},
                          "flow_sequence_entry_mapping_end", TRUE, FALSE)
        ELSE Emit(a, EmptyScalar, "flow_sequence_entry_mapping_end")

\* parse_flow_sequence_entry_mapping_end
ParseFlowSequenceEntryMappingEnd(s, st) ==
    LET a == Self("Tokens", <<s, st>>)
    IN  IF a.err # "" THEN a
        ELSE Emit(a, Event("mapping-end"), "flow_sequence_entry")

\* parse_flow_mapping_key
ParseFlowMappingKey(s, st, first) ==
    LET a == Self("Tokens", <<s, st>>)
        b == IF first THEN a ELSE Self("Tokens", <<s, GetToken(a)>>)
    IN  IF a.err # "" THEN a
        ELSE IF CheckToken(a, {"flow-mapping-end"})
          THEN EmitPop(GetToken(a), Event("mapping-end"))
        ELSE IF ~first /\ ~CheckToken(a, {"flow-entry"}) THEN Raise(a, "YAMLError")
        ELSE IF b.err # "" THEN b
        ELSE IF CheckToken(b, {"key"})
          THEN ParseAfter(s, b, {"value", "flow-entry", "flow-mapping-end"},
                          "flow_mapping_value", TRUE, FALSE)
        ELSE IF CheckToken(b, {"flow-mapping-end"})
          THEN EmitPop(GetToken(b), Event("mapping-end"))
        ELSE ParseFlowNode(s, PushState(b, "flow_mapping_empty_value"))

\* parse_flow_mapping_value
ParseFlowMappingValue(s, st) ==
    LET a == Self("Tokens", <<s, st>>)
    IN  IF a.err # "" THEN a
        ELSE IF CheckToken(a, {"value"})
          THEN ParseAfter(s, a, {"flow-entry", "flow-mapping-end"}, "flow_mapping_key",
                          TRUE, FALSE)
        ELSE Emit(a, EmptyScalar, "flow_mapping_key")

\* parse_flow_mapping_empty_value
ParseFlowMappingEmptyValue(s, st) ==
    LET a == Self("Tokens", <<s, st>>)
    IN  IF a.err # "" THEN a ELSE Emit(a, EmptyScalar, "flow_mapping_key")

\* The first entry or key of a collection: the token that starts the
\* collection is taken.
ParseFirst(s, st) ==
    LET a == Self("Tokens", <<s, st>>)
    IN  IF a.err # "" THEN a ELSE GetToken(a)

\* `self.current_event = self.state()`
ParseState(s, st) ==
    CASE st.state = "stream_start" -> ParseStreamStart(s, st)
      [] st.state = "implicit_document_start" -> ParseImplicitDocumentStart(s, st)
      [] st.state = "document_start" -> ParseDocumentStart(s, st)
      [] st.state = "document_end" -> ParseDocumentEnd(s, st)
      [] st.state = "document_content" -> ParseDocumentContent(s, st)
      [] st.state = "block_node" -> ParseBlockNode(s, st)
      [] st.state = "block_sequence_first_entry" ->
            LET a == ParseFirst(s, st)
            IN  IF a.err # "" THEN a ELSE ParseBlockSequenceEntry(s, a)
      [] st.state = "block_sequence_entry" -> ParseBlockSequenceEntry(s, st)
      [] st.state = "indentless_sequence_entry" -> ParseIndentlessSequenceEntry(s, st)
      [] st.state = "block_mapping_first_key" ->
            LET a == ParseFirst(s, st)
            IN  IF a.err # "" THEN a ELSE ParseBlockMappingKey(s, a)
      [] st.state = "block_mapping_key" -> ParseBlockMappingKey(s, st)
      [] st.state = "block_mapping_value" -> ParseBlockMappingValue(s, st)
      [] st.state = "flow_sequence_first_entry" ->
            LET a == ParseFirst(s, st)
            IN  IF a.err # "" THEN a ELSE ParseFlowSequenceEntry(s, a, TRUE)
      [] st.state = "flow_sequence_entry" -> ParseFlowSequenceEntry(s, st, FALSE)
      [] st.state = "flow_sequence_entry_mapping_key" ->
            ParseFlowSequenceEntryMappingKey(s, st)
      [] st.state = "flow_sequence_entry_mapping_value" ->
            ParseFlowSequenceEntryMappingValue(s, st)
      [] st.state = "flow_sequence_entry_mapping_end" ->
            ParseFlowSequenceEntryMappingEnd(s, st)
      [] st.state = "flow_mapping_first_key" ->
            LET a == ParseFirst(s, st)
            IN  IF a.err # "" THEN a ELSE ParseFlowMappingKey(s, a, TRUE)
      [] st.state = "flow_mapping_key" -> ParseFlowMappingKey(s, st, FALSE)
      [] st.state = "flow_mapping_value" -> ParseFlowMappingValue(s, st)
      [] st.state = "flow_mapping_empty_value" -> ParseFlowMappingEmptyValue(s, st)

\* peek_event: the loader with its current event there.
PeekEvent(s, st) ==
    IF st.err # "" \/ st.event.e # "none" \/ st.state = "none" THEN st
    ELSE ParseState(s, st)

\* get_event, once the current event is there.
GetEvent(st) == [st EXCEPT !.event = Event("none")]

\* ---------------------------------------------------------------------
\* yaml.safe_load: the resolver (yaml/resolver.py).
\* ---------------------------------------------------------------------

\* 'tag:yaml.org,2002:' + name
YamlTag(name) == YamlOrg \o name

TagBool == YamlTag(<<"b", "o", "o", "l">>)
TagFloat == YamlTag(<<"f", "l", "o", "a", "t">>)
TagInt == YamlTag(<<"i", "n", "t">>)
TagMerge == YamlTag(<<"m", "e", "r", "g", "e">>)
TagNull == YamlTag(<<"n", "u", "l", "l">>)
TagTimestamp == YamlTag(<<"t", "i", "m", "e", "s", "t", "a", "m", "p">>)
TagValue == YamlTag(<<"v", "a", "l", "u", "e">>)
TagYaml == YamlTag(<<"y", "a", "m", "l">>)
TagStr == YamlTag(<<"s", "t", "r">>)
TagSeq == YamlTag(<<"s", "e", "q">>)
TagMap == YamlTag(<<"m", "a", "p">>)
TagBinary == YamlTag(<<"b", "i", "n", "a", "r", "y">>)
TagOmap == YamlTag(<<"o", "m", "a", "p">>)
TagPairs == YamlTag(<<"p", "a", "i", "r", "s">>)
TagSet == YamlTag(<<"s", "e", "t">>)

\* v[i:]
From(v, i) == SubSeq(v, i, Len(v))

\* Every character of v is in set.
AllIn(v, set) == \A i \in 1..Len(v) : v[i] \in set


\* The place of the first character of v that is in set, Len(v) + 1 when
\* none is.
Find(v, set) == SkipUntil(v, 1, set \cup {EOF})

\* The implicit resolver of bool
BoolWords ==
    {<<"y", "e", "s">>, <<"Y", "e", "s">>, <<"Y", "E", "S">>,
     <<"n", "o">>, <<"N", "o">>, <<"N", "O">>,
     <<"t", "r", "u", "e">>, <<"T", "r", "u", "e">>, <<"T", "R", "U", "E">>,
     <<"f", "a", "l", "s", "e">>, <<"F", "a", "l", "s", "e">>,
     <<"F", "A", "L", "S", "E">>,
     <<"o", "n">>, <<"O", "n">>, <<"O", "N">>,
     <<"o", "f", "f">>, <<"O", "f", "f">>, <<"O", "F", "F">>}

Digits_ == Digits \cup {"_"}

\* (?:[eE][-+][0-9]+)?
YamlExponent(v) ==
    \/ v = <<>>
    \/ /\ Len(v) >= 3 /\ v[1] \in {"e", "E"} /\ v[2] \in {"-", "+"}
       /\ AllIn(From(v, 3), Digits)

RECURSIVE Sexagesimal(_)
\* (?::[0-5]?[0-9])+
Sexagesimal(v) ==
    /\ Len(v) >= 2 /\ v[1] = ":"
    /\ \/ v[2] \in Digits /\ (Len(v) = 2 \/ Sexagesimal(From(v, 3)))
       \/ /\ Len(v) >= 3 /\ v[2] \in {"0", "1", "2", "3", "4", "5"} /\ v[3] \in Digits
          /\ (Len(v) = 3 \/ Sexagesimal(From(v, 4)))

\* The implicit resolver of float
FloatPattern(v) ==
    LET u == Unsigned(v, {"-", "+"})
        dot == Find(u, {"."})
        e == SkipWhile(u, dot + 1, Digits_)
        colon == Find(u, {":"})
    IN  \/ /\ u # <<>> /\ u[1] \in Digits /\ dot <= Len(u)
           /\ AllIn(SubSeq(u, 1, dot - 1), Digits_)
           /\ YamlExponent(From(u, e))
        \/ /\ Len(v) >= 2 /\ v[1] = "." /\ v[2] \in Digits
           /\ YamlExponent(From(v, SkipWhile(v, 2, Digits_)))
        \/ /\ u # <<>> /\ u[1] \in Digits /\ colon < dot /\ dot <= Len(u)
           /\ AllIn(SubSeq(u, 1, colon - 1), Digits_)
           /\ Sexagesimal(SubSeq(u, colon, dot - 1))
           /\ AllIn(From(u, dot + 1), Digits_)
        \/ u \in {<<".", "i", "n", "f">>, <<".", "I", "n", "f">>, <<".", "I", "N", "F">>}
        \/ v \in {<<".", "n", "a", "n">>, <<".", "N", "a", "N">>, <<".", "N", "A", "N">>}

\* The implicit resolver of int
IntPattern(v) ==
    LET u == Unsigned(v, {"-", "+"})
        colon == Find(u, {":"})
    IN  \/ /\ Len(u) >= 3 /\ u[1] = "0" /\ u[2] = "b"
           /\ AllIn(From(u, 3), {"0", "1", "_"})
        \/ /\ Len(u) >= 2 /\ u[1] = "0"
           /\ AllIn(From(u, 2), {"0", "1", "2", "3", "4", "5", "6", "7", "_"})
        \/ u = <<"0">>
        \/ u # <<>> /\ u[1] \in Digits \ {"0"} /\ AllIn(u, Digits_)
        \/ /\ Len(u) >= 3 /\ u[1] = "0" /\ u[2] = "x"
           /\ AllIn(From(u, 3), Hex \cup {"_"})
        \/ /\ u # <<>> /\ u[1] \in Digits \ {"0"} /\ colon <= Len(u)
           /\ AllIn(SubSeq(u, 1, colon - 1), Digits_)
           /\ Sexagesimal(From(u, colon))

\* What timestamp_regexp finds in v: whether it matches, and the digits
\* of the groups where it does (<<>> for a group that took part in no
\* match).  NoTimestamp: it does not match.
NoTimestamp ==
    [ok |-> FALSE, year |-> <<>>, month |-> <<>>, day |-> <<>>,
     hour |-> <<>>, minute |-> <<>>, second |-> <<>>, fraction |-> <<>>,
     tz |-> <<>>, tz_sign |-> <<>>, tz_hour |-> <<>>, tz_minute |-> <<>>]

\* (?:[ \t]*(Z|[-+][0-9][0-9]?(?::[0-9][0-9])?))?$ from f1 on, time being
\* what matched before.
TimestampZone(v, time, f1) ==
    LET z0 == SkipWhile(v, f1, {" ", "\t"})
        z1 == SkipWhile(v, z0 + 1, Digits)
        zh == IF z1 - z0 - 1 > 2 THEN z0 + 3 ELSE z1
        zm == IF At(v, zh) = ":" /\ At(v, zh + 1) \in Digits /\ At(v, zh + 2) \in Digits
                THEN zh + 3 ELSE zh
    IN  IF At(v, z0) = "Z" /\ z0 = Len(v)
          THEN [time EXCEPT !.tz = <<"Z">>]
        ELSE IF At(v, z0) \in {"-", "+"} /\ zh > z0 + 1 /\ zm = Len(v) + 1
          THEN [time EXCEPT !.tz = From(v, z0), !.tz_sign = <<v[z0]>>,
                            !.tz_hour = SubSeq(v, z0 + 1, zh - 1),
                            !.tz_minute = IF zm > zh THEN SubSeq(v, zh + 1, zh + 2)
                                                     ELSE <<>>]
        ELSE NoTimestamp

\* The time of day from d1 on, date being what matched before.
TimestampTime(v, date, d1) ==
    LET \* (?:[Tt]|[ \t]+)
        h0 == IF At(v, d1) \in {"T", "t"} THEN d1 + 1
              ELSE SkipWhile(v, d1, {" ", "\t"})
        h1 == SkipWhile(v, h0, Digits)
        timed == /\ h0 > d1 /\ h1 - h0 \in {1, 2} /\ At(v, h1) = ":"
                 /\ At(v, h1 + 1) \in Digits /\ At(v, h1 + 2) \in Digits
                 /\ At(v, h1 + 3) = ":"
                 /\ At(v, h1 + 4) \in Digits /\ At(v, h1 + 5) \in Digits
        s1 == h1 + 6
        \* (?:\.[0-9]*)?
        f1 == IF At(v, s1) = "." THEN SkipWhile(v, s1 + 1, Digits) ELSE s1
        time == [date EXCEPT !.hour = SubSeq(v, h0, h1 - 1),
                             !.minute = SubSeq(v, h1 + 1, h1 + 2),
                             !.second = SubSeq(v, h1 + 4, h1 + 5),
                             !.fraction = SubSeq(v, s1 + 1, f1 - 1)]
    IN  IF ~timed THEN NoTimestamp
        ELSE IF f1 = Len(v) + 1 THEN time
        ELSE TimestampZone(v, time, f1)

TimestampMatch(v) ==
    LET m1 == SkipWhile(v, 6, Digits)
        d1 == SkipWhile(v, m1 + 1, Digits)
        date == [NoTimestamp EXCEPT !.ok = TRUE, !.year = SubSeq(v, 1, 4),
                                    !.month = SubSeq(v, 6, m1 - 1),
                                    !.day = SubSeq(v, m1 + 1, d1 - 1)]
        dated == /\ Len(v) >= 8 /\ AllIn(SubSeq(v, 1, 4), Digits) /\ v[5] = "-"
                 /\ m1 - 6 \in {1, 2} /\ At(v, m1) = "-" /\ d1 - m1 - 1 \in {1, 2}
    IN  IF ~dated THEN NoTimestamp
        ELSE IF d1 = Len(v) + 1 THEN date
        ELSE TimestampTime(v, date, d1)

\* The implicit resolver of timestamp
TimestampPattern(v) ==
    LET m == Self("TimestampMatch", <<v>>)
    IN  /\ m.ok
        /\ m.hour = <<>> => Len(v) = 10

\* regexp.match(value) for a pattern that ends with $: the whole of value
\* matches, or value without the line feed it ends with.
Dollar(Pattern(_), v) ==
    \/ Pattern(v)
    \/ v # <<>> /\ v[Len(v)] = "\n" /\ Pattern(SubSeq(v, 1, Len(v) - 1))

\* resolve where it looks at the implicit resolvers, in their order.
ResolveImplicit(v) ==
    IF Dollar(LAMBDA x : x \in BoolWords, v) THEN TagBool
    ELSE IF Dollar(FloatPattern, v) THEN TagFloat
    ELSE IF Dollar(IntPattern, v) THEN TagInt
    ELSE IF Dollar(LAMBDA x : x = <<"<", "<">>, v) THEN TagMerge
    ELSE IF Dollar(LAMBDA x : x \in {<<"~">>, <<"n", "u", "l", "l">>,
                                      <<"N", "u", "l", "l">>, <<"N", "U", "L", "L">>,
                                      <<>>}, v)
      THEN TagNull
    ELSE IF Dollar(TimestampPattern, v) THEN TagTimestamp
    ELSE IF Dollar(LAMBDA x : x = <<"=">>, v) THEN TagValue
    ELSE IF Dollar(LAMBDA x : x \in {<<"!">>, <<"&">>, <<"*">>}, v) THEN TagYaml
    ELSE TagStr

\* resolve(ScalarNode, value, implicit)
Resolve(value, implicit) ==
    IF implicit[1] THEN ResolveImplicit(value) ELSE TagStr

\* ---------------------------------------------------------------------
\* yaml.safe_load: the composer (yaml/composer.py).
\* ---------------------------------------------------------------------

\* Composer.__init__ on the loader; nodes holds the nodes made, a node
\* being known by its place there, and node is the one composed last.
ComposerInit == [anchors |-> {}, nodes |-> <<>>, node |-> 0]

Node(kind, tag, value) ==
    [kind |-> kind, tag |-> tag, value |-> value, items |-> <<>>, pairs |-> <<>>]

\* The node of an event is made, and its anchor remembered.
NewNode(st, event, node) ==
    [st EXCEPT !.nodes = Append(@, node), !.node = Len(st.nodes) + 1,
               !.anchors = IF event.anchor = <<>> THEN @
                           ELSE @ \cup {<<event.anchor, Len(st.nodes) + 1>>}]

RECURSIVE ComposeNode(_, _)
RECURSIVE ComposeSequence(_, _, _)
RECURSIVE ComposeMapping(_, _, _)

\* compose_node
ComposeNode(s, st0) ==
    LET st == Self("PeekEvent", <<s, st0>>)
        event == st.event
        tag == IF event.tag \in {<<>>, <<"!">>}
                 THEN CASE event.e = "scalar" -> Self("Resolve", <<event.value, event.implicit>>)
                        [] event.e = "sequence-start" -> TagSeq
                        [] event.e = "mapping-start" -> TagMap
                 ELSE event.tag
        id == Len(st.nodes) + 1
    IN  IF st.err # "" THEN st
        ELSE IF event.e = "alias"
          THEN IF \E a \in st.anchors : a[1] = event.anchor
                 THEN [GetEvent(st) EXCEPT
                          !.node = (CHOOSE a \in st.anchors : a[1] = event.anchor)[2]]
                 ELSE Raise(st, "YAMLError")
        ELSE IF event.anchor # <<>> /\ \E a \in st.anchors : a[1] = event.anchor
          THEN Raise(st, "YAMLError")
        ELSE IF event.e = "scalar"
          THEN NewNode(GetEvent(st), event, Node("scalar", tag, event.value))
        ELSE IF event.e = "sequence-start"
          THEN ComposeSequence(s, NewNode(GetEvent(st), event, Node("sequence", tag, <<>>)),
                               id)
        ELSE ComposeMapping(s, NewNode(GetEvent(st), event, Node("mapping", tag, <<>>)),
                            id)

\* The loop of compose_sequence_node for the node id.
ComposeSequence(s, st0, id) ==
    LET st == Self("PeekEvent", <<s, st0>>)
        c == Self("ComposeNode", <<s, st>>)
    IN  IF st.err # "" THEN st
        ELSE IF st.event.e = "sequence-end" THEN [GetEvent(st) EXCEPT !.node = id]
        ELSE IF c.err # "" THEN c
        ELSE ComposeSequence(s, [c EXCEPT !.nodes[id].items = Append(@, c.node)], id)

\* The loop of compose_mapping_node for the node id.
ComposeMapping(s, st0, id) ==
    LET st == Self("PeekEvent", <<s, st0>>)
        k == Self("ComposeNode", <<s, st>>)
        v == Self("ComposeNode", <<s, k>>)
    IN  IF st.err # "" THEN st
        ELSE IF st.event.e = "mapping-end" THEN [GetEvent(st) EXCEPT !.node = id]
        ELSE IF k.err # "" THEN k
        ELSE IF v.err # "" THEN v
        ELSE ComposeMapping(s, [v EXCEPT !.nodes[id].pairs = Append(@, <<k.node, v.node>>)],
                            id)

\* compose_document
ComposeDocument(s, st) ==
    LET n == Self("ComposeNode", <<s, GetEvent(st)>>)
        e == Self("PeekEvent", <<s, n>>)
    IN  IF n.err # "" THEN n
        ELSE IF e.err # "" THEN e
        ELSE [GetEvent(e) EXCEPT !.anchors = {}]

\* get_single_node; node is 0 where the stream has no document.
GetSingleNode(s, st) ==
    LET a == Self("PeekEvent", <<s, st>>)
        b == Self("PeekEvent", <<s, GetEvent(a)>>)
        d == IF b.event.e = "stream-end" THEN [b EXCEPT !.node = 0]
             ELSE ComposeDocument(s, b)
        e == Self("PeekEvent", <<s, d>>)
    IN  IF a.err # "" THEN a
        ELSE IF b.err # "" THEN b
        ELSE IF d.err # "" THEN d
        ELSE IF e.err # "" THEN e
        ELSE IF e.event.e # "stream-end" THEN Raise(e, "YAMLError")
        ELSE GetEvent(e)

\* ---------------------------------------------------------------------
\* The conversions of Python that the constructor and SendValid call.
\* ---------------------------------------------------------------------

\* str.lower()
LowerResp(resp) == [i \in 1..Len(resp) |-> LowerChar(resp[i])]

\* The characters str.isspace() holds for, which str.strip() removes.
White ==
    {" ", "\t", "\n", "\r", "<0b>", "<0c>", "<1c>", "<1d>", "<1e>", "<1f>", UniSpace}

\* Those of them int() and float() take around a number.
NumSpace == White \ {"<1c>", "<1d>", "<1e>", "<1f>"}

\* The value of a digit of int(), of any script.
DigitVal(ch) ==
    IF \E k \in 1..10 : UniDigits[k] = ch
      THEN (CHOOSE k \in 1..10 : UniDigits[k] = ch) - 1
      ELSE HexDigitVal(ch)

\* The digits of each base int() is called with.
BaseDigits ==
    [base \in {2, 8, 10, 16} |-> {ch \in Hex \cup Range(UniDigits) : DigitVal(ch) < base}]

\* The digits of a base.
DigitsOf(base) == BaseDigits[base]

\* Digits of set, with single underscores between them.
Grouped(v, set) ==
    /\ v # <<>> /\ v[1] \in set /\ v[Len(v)] \in set
    /\ \A i \in 1..Len(v) : v[i] \in set \/ (v[i] = "_" /\ v[i + 1] \in set)

\* The letters that may follow the 0 of a prefix of a base.
PrefixOf(base) ==
    CASE base = 2 -> {"b", "B"} [] base = 8 -> {"o", "O"}
      [] base = 16 -> {"x", "X"} [] OTHER -> {}

\* int(v, base) returns; it raises ValueError otherwise.
PyInt(v, base) ==
    LET u == Unsigned(StripResp(v, NumSpace), {"+", "-"})
        prefixed == Len(u) >= 2 /\ u[1] = "0" /\ u[2] \in PrefixOf(base)
        w == IF prefixed THEN From(u, 3) ELSE u
    IN  Grouped(IF prefixed /\ w # <<>> /\ w[1] = "_" THEN Tail(w) ELSE w,
                DigitsOf(base))

\* float(v) returns; it raises ValueError otherwise.
PyFloat(v) ==
    LET u == Unsigned(StripResp(v, NumSpace), {"+", "-"})
        e == Find(u, {"e", "E"})
        mantissa == SubSeq(u, 1, e - 1)
        dot == Find(mantissa, {"."})
        whole == SubSeq(mantissa, 1, dot - 1)
        part == From(mantissa, dot + 1)
    IN  \/ LowerResp(u) \in {<<"i", "n", "f">>, <<"n", "a", "n">>,
                             <<"i", "n", "f", "i", "n", "i", "t", "y">>}
        \/ /\ whole # <<>> \/ part # <<>>
           /\ whole = <<>> \/ Grouped(whole, DigitsOf(10))
           /\ part = <<>> \/ Grouped(part, DigitsOf(10))
           /\ e <= Len(u) => Grouped(Unsigned(From(u, e + 1), {"+", "-"}), DigitsOf(10))

\* int(resp) returns (llm.py 154, utils.py 75)
IntOf(resp) == PyInt(resp, 10)

\* float(resp) returns (llm.py 166, utils.py 81)
FloatOf(resp) == PyFloat(resp)

\* The whitespace json.loads takes around a value and between its parts.
JsonWhite == {" ", "\t", "\n", "\r"}

JsonSkip(s, i) == SkipWhile(s, i, JsonWhite)

\* The characters a JSON string cannot hold unescaped.
JsonControl == {Ascii[k] : k \in 1..32}

RECURSIVE JsonString(_, _)
\* scanstring from inside the opening quote at i: the place after the
\* closing quote, 0 where it raises JSONDecodeError.
JsonString(s, i) ==
    LET ch == At(s, i)
        e == At(s, i + 1)
    IN  IF ch = "\"" THEN i + 1
        ELSE IF ch = EOF \/ ch \in JsonControl THEN 0
        ELSE IF ch # "\\" THEN JsonString(s, i + 1)
        ELSE IF e \in {"\"", "\\", "/", "b", "f", "n", "r", "t"} THEN JsonString(s, i + 2)
        ELSE IF e = "u" /\ \A k \in 2..5 : At(s, i + k) \in Hex THEN JsonString(s, i + 6)
        ELSE 0

\* The place after the number that begins at i, 0 where none does:
\* (-?(?:0|[1-9][0-9]*))(\.[0-9]+)?([eE][-+]?[0-9]+)?
JsonNumber(s, i) ==
    LET a == IF At(s, i) = "-" THEN i + 1 ELSE i
        b == IF At(s, a) = "0" THEN a + 1
             ELSE IF At(s, a) \in Digits THEN SkipWhile(s, a, Digits)
             ELSE 0
        c == IF At(s, b) = "." /\ At(s, b + 1) \in Digits
               THEN SkipWhile(s, b + 1, Digits) ELSE b
        d == IF At(s, c) \notin {"e", "E"} THEN 0
             ELSE IF At(s, c + 1) \in {"+", "-"} THEN c + 2
             ELSE c + 1
    IN  IF b = 0 THEN 0
        ELSE IF d > 0 /\ At(s, d) \in Digits THEN SkipWhile(s, d, Digits)
        ELSE c

\* s holds the characters of word from i on.
WordAt(s, i, word) ==
    i + Len(word) - 1 <= Len(s) /\ SubSeq(s, i, i + Len(word) - 1) = word

RECURSIVE JsonValue(_, _)
RECURSIVE JsonMembers(_, _)
RECURSIVE JsonItems(_, _)

\* scan_once at i: the place after the value that begins there, 0 where it
\* raises JSONDecodeError.
JsonValue(s, i) ==
    LET ch == At(s, i)
        j == JsonSkip(s, i + 1)
        words == {w \in {<<"n", "u", "l", "l">>, <<"t", "r", "u", "e">>,
                         <<"f", "a", "l", "s", "e">>, <<"N", "a", "N">>,
                         <<"I", "n", "f", "i", "n", "i", "t", "y">>,
                         <<"-", "I", "n", "f", "i", "n", "i", "t", "y">>} :
                    WordAt(s, i, w)}
    IN  IF ch = "\"" THEN JsonString(s, i + 1)
        ELSE IF ch = "{" THEN IF At(s, j) = "}" THEN j + 1 ELSE JsonMembers(s, j)
        ELSE IF ch = "[" THEN IF At(s, j) = "]" THEN j + 1 ELSE JsonItems(s, j)
        ELSE IF words # {} THEN i + Len(CHOOSE w \in words : TRUE)
        ELSE JsonNumber(s, i)

\* JSONObject from the place i of a key on.
JsonMembers(s, i) ==
    LET key == IF At(s, i) = "\"" THEN JsonString(s, i + 1) ELSE 0
        colon == JsonSkip(s, key)
        v == JsonValue(s, JsonSkip(s, colon + 1))
        e == JsonSkip(s, v)
    IN  IF key = 0 \/ At(s, colon) # ":" THEN 0
        ELSE IF v = 0 THEN 0
        ELSE IF At(s, e) = "}" THEN e + 1
        ELSE IF At(s, e) = "," THEN JsonMembers(s, JsonSkip(s, e + 1))
        ELSE 0

\* JSONArray from the place i of an item on.
JsonItems(s, i) ==
    LET v == JsonValue(s, i)
        e == JsonSkip(s, v)
    IN  IF v = 0 THEN 0
        ELSE IF At(s, e) = "]" THEN e + 1
        ELSE IF At(s, e) = "," THEN JsonItems(s, JsonSkip(s, e + 1))
        ELSE 0

\* json.loads(resp) returns; it raises JSONDecodeError, a ValueError,
\* otherwise.
JsonLoads(resp) ==
    LET v == JsonValue(resp, JsonSkip(resp, 1))
    IN  v # 0 /\ JsonSkip(resp, v) = Len(resp) + 1

RECURSIVE DecVal(_, _)
\* int(digits), acc being the value of the digits read.
DecVal(digits, acc) ==
    IF digits = <<>> THEN acc
    ELSE DecVal(Tail(digits), acc * 10 + Self("DigitVal", <<digits[1]>>))

RECURSIVE Split(_, _, _)
\* str.split(sep), cur being the part read so far.
Split(v, sep, cur) ==
    IF v = <<>> THEN <<cur>>
    ELSE IF v[1] = sep THEN <<cur>> \o Split(Tail(v), sep, <<>>)
    ELSE Split(Tail(v), sep, Append(cur, v[1]))

\* The characters of the base64 alphabet.
Base64Chars == Digits \cup Letters \cup {"+", "/"}

RECURSIVE Base64(_, _, _)
\* binascii.a2b_base64(v) returns: quad_pos is the place in the group of
\* four characters and pads the padding seen since the last of them.
Base64(v, quad_pos, pads) ==
    IF v = <<>> THEN quad_pos = 0
    ELSE IF v[1] = "="
      THEN IF quad_pos >= 2 /\ quad_pos + pads + 1 >= 4 THEN TRUE
           ELSE Base64(Tail(v), quad_pos, IF quad_pos >= 2 THEN pads + 1 ELSE pads)
    ELSE IF v[1] \in Base64Chars THEN Base64(Tail(v), (quad_pos + 1) % 4, 0)
    ELSE Base64(Tail(v), quad_pos, pads)

\* datetime.date(year, month, day) returns.
DateValid(year, month, day) ==
    LET leap == year % 4 = 0 /\ (year % 100 # 0 \/ year % 400 = 0)
        days == CASE month \in {4, 6, 9, 11} -> 30
                  [] month = 2 -> IF leap THEN 29 ELSE 28
                  [] OTHER -> 31
    IN  year >= 1 /\ month \in 1..12 /\ day \in 1..days

\* ---------------------------------------------------------------------
\* yaml.safe_load: the constructor (yaml/constructor.py).
\* ---------------------------------------------------------------------

\* What constructing a scalar gives: "" where it returned, and the class
\* of the exception where it raised one (ConstructorError is a YAMLError).

\* construct_yaml_bool on the value v
ConstructBool(v) ==
    IF Self("LowerResp", <<v>>) \in {<<"y", "e", "s">>, <<"n", "o">>, <<"t", "r", "u", "e">>,
                         <<"f", "a", "l", "s", "e">>, <<"o", "n">>, <<"o", "f", "f">>}
      THEN "" ELSE "KeyError"

\* construct_yaml_int on the value v
ConstructInt(v) ==
    LET a == SelectSeq(v, LAMBDA ch : ch # "_")
        value == Unsigned(a, {"+", "-"})
        parts == Split(value, ":", <<>>)
        ok == IF value = <<"0">> THEN TRUE
              ELSE IF Len(value) >= 2 /\ value[1] = "0" /\ value[2] = "b"
                THEN Self("PyInt", <<From(value, 3), 2>>)
              ELSE IF Len(value) >= 2 /\ value[1] = "0" /\ value[2] = "x"
                THEN Self("PyInt", <<From(value, 3), 16>>)
              ELSE IF value[1] = "0" THEN Self("PyInt", <<value, 8>>)
              ELSE IF Len(parts) > 1 THEN \A k \in 1..Len(parts) : Self("PyInt", <<parts[k], 10>>)
              ELSE Self("PyInt", <<value, 10>>)
    IN  IF a = <<>> \/ value = <<>> THEN "IndexError"
        ELSE IF ok THEN "" ELSE "ValueError"

\* construct_yaml_float on the value v
ConstructFloat(v) ==
    LET a == Self("LowerResp", <<SelectSeq(v, LAMBDA ch : ch # "_")>>)
        value == Unsigned(a, {"+", "-"})
        parts == Split(value, ":", <<>>)
        ok == IF value \in {<<".", "i", "n", "f">>, <<".", "n", "a", "n">>} THEN TRUE
              ELSE IF Len(parts) > 1 THEN \A k \in 1..Len(parts) : Self("PyFloat", <<parts[k]>>)
              ELSE Self("PyFloat", <<value>>)
    IN  IF a = <<>> THEN "IndexError"
        ELSE IF ok THEN "" ELSE "ValueError"

\* construct_yaml_binary on the value v
ConstructBinary(v) ==
    IF \E i \in 1..Len(v) : v[i] \in {UniSpace, UniControl, UniOther} THEN "YAMLError"
    ELSE IF Base64(v, 0, 0) THEN ""
    ELSE "YAMLError"

\* construct_yaml_timestamp on the value v of a scalar node
ConstructTimestamp(v) ==
    LET m == IF Self("TimestampMatch", <<v>>).ok \/ v = <<>> \/ v[Len(v)] # "\n"
               THEN Self("TimestampMatch", <<v>>)
               ELSE Self("TimestampMatch", <<SubSeq(v, 1, Len(v) - 1)>>)
        date == DateValid(DecVal(m.year, 0), DecVal(m.month, 0), DecVal(m.day, 0))
        minutes == DecVal(m.tz_hour, 0) * 60 + DecVal(m.tz_minute, 0)
    IN  IF ~m.ok THEN "AttributeError"
        ELSE IF ~date THEN "ValueError"
        ELSE IF m.hour = <<>> THEN ""
        ELSE IF DecVal(m.hour, 0) > 23 \/ DecVal(m.minute, 0) > 59
                  \/ DecVal(m.second, 0) > 59
          THEN "ValueError"
        ELSE IF m.tz_sign # <<>> /\ minutes >= 24 * 60 THEN "ValueError"
        ELSE ""

RECURSIVE ConstructScalar(_, _, _)
\* SafeConstructor.construct_scalar on the node id: the value where it
\* returns one; seen holds the mappings it went through, and coming back to
\* one of them is the RecursionError.
ConstructScalar(nodes, id, seen) ==
    LET node == nodes[id]
        values == {p \in 1..Len(node.pairs) : nodes[node.pairs[p][1]].tag = TagValue}
        first == CHOOSE p \in values : \A q \in values : p <= q
    IN  IF node.kind = "scalar" THEN [err |-> "", v |-> node.value]
        ELSE IF node.kind = "mapping" /\ values # {}
          THEN IF id \in seen THEN [err |-> "RecursionError", v |-> <<>>]
               ELSE Self("ConstructScalar", <<nodes, node.pairs[first][2], seen \cup {id}>>)
        ELSE [err |-> "YAMLError", v |-> <<>>]

RemoveAt(seq, n) == SubSeq(seq, 1, n - 1) \o SubSeq(seq, n + 1, Len(seq))

RECURSIVE FlattenMapping(_, _, _, _)
RECURSIVE FlattenSequence(_, _, _)

\* flatten_mapping on the mapping id, from the pair index on, merge being
\* the pairs to merge found so far: the nodes after it, and whether it
\* raised ConstructorError.
FlattenMapping(nodes, id, index, merge) ==
    LET pairs == nodes[id].pairs
        key == pairs[index][1]
        value == pairs[index][2]
        removed == [nodes EXCEPT ![id].pairs = RemoveAt(@, index)]
        m == Self("FlattenMapping", <<removed, value, 1, <<>>>>)
        q == FlattenSequence(removed, nodes[value].items, <<>>)
    IN  IF index > Len(pairs)
          THEN [nodes |-> [nodes EXCEPT ![id].pairs = merge \o @], err |-> ""]
        ELSE IF nodes[key].tag = TagMerge
          THEN IF nodes[value].kind = "mapping"
                 THEN IF m.err # "" THEN m
                      ELSE Self("FlattenMapping", <<m.nodes, id, index,
                                          merge \o m.nodes[value].pairs>>)
               ELSE IF nodes[value].kind = "sequence"
                 THEN IF q.err # "" THEN [nodes |-> q.nodes, err |-> q.err]
                      ELSE Self("FlattenMapping", <<q.nodes, id, index, merge \o q.merge>>)
               ELSE [nodes |-> nodes, err |-> "YAMLError"]
        ELSE IF nodes[key].tag = TagValue
          THEN Self("FlattenMapping", <<[nodes EXCEPT ![key].tag = TagStr], id, index + 1, merge>>)
        ELSE Self("FlattenMapping", <<nodes, id, index + 1, merge>>)

\* The mappings of a sequence under a merge key are flattened in their
\* order, and their pairs put together in the opposite order.
FlattenSequence(nodes, items, merge) ==
    LET m == Self("FlattenMapping", <<nodes, items[1], 1, <<>>>>)
    IN  IF items = <<>> THEN [nodes |-> nodes, merge |-> merge, err |-> ""]
        ELSE IF nodes[items[1]].kind # "mapping"
          THEN [nodes |-> nodes, merge |-> merge, err |-> "YAMLError"]
        ELSE IF m.err # "" THEN [nodes |-> m.nodes, merge |-> merge, err |-> m.err]
        ELSE FlattenSequence(m.nodes, Tail(items), m.nodes[items[1]].pairs \o merge)

\* The tags whose constructor gives its object before it fills it.
Collections == {TagOmap, TagPairs, TagSet, TagSeq, TagMap}

\* construct_object on the node id; c holds the nodes, the nodes
\* constructed, those of them whose object cannot be hashed, and the
\* generators that wait.
ConstructObject(c, id) ==
    LET node == c.nodes[id]
        r == Self("ConstructScalar", <<c.nodes, id, {}>>)
        e == CASE node.tag = TagNull -> r.err
               [] node.tag = TagStr -> r.err
               [] node.tag = TagBool -> IF r.err # "" THEN r.err ELSE ConstructBool(r.v)
               [] node.tag = TagInt -> IF r.err # "" THEN r.err ELSE Self("ConstructInt", <<r.v>>)
               [] node.tag = TagFloat -> IF r.err # "" THEN r.err ELSE Self("ConstructFloat", <<r.v>>)
               [] node.tag = TagBinary -> IF r.err # "" THEN r.err ELSE ConstructBinary(r.v)
               [] node.tag = TagTimestamp ->
                     IF r.err # "" THEN r.err
                     ELSE IF node.kind # "scalar" THEN "TypeError"
                     ELSE Self("ConstructTimestamp", <<node.value>>)
               [] OTHER -> "YAMLError"
    IN  IF id \in c.constructed THEN c
        ELSE IF node.tag \in Collections
          THEN [c EXCEPT !.constructed = @ \cup {id}, !.unhashable = @ \cup {id},
                         !.generators = Append(@, id)]
        ELSE IF e # "" THEN [c EXCEPT !.err = e]
        ELSE [c EXCEPT !.constructed = @ \cup {id}]

RECURSIVE ConstructSequence(_, _)
\* construct_sequence on the items
ConstructSequence(c, items) ==
    IF c.err # "" \/ items = <<>> THEN c
    ELSE ConstructSequence(Self("ConstructObject", <<c, items[1]>>), Tail(items))

RECURSIVE ConstructPairs(_, _, _)
\* The loop of construct_mapping on the pairs; hashed tells whether a key
\* has to be hashable.
ConstructPairs(c, pairs, hashed) ==
    LET k == Self("ConstructObject", <<c, pairs[1][1]>>)
    IN  IF c.err # "" \/ pairs = <<>> THEN c
        ELSE IF k.err # "" THEN k
        ELSE IF hashed /\ pairs[1][1] \in k.unhashable THEN [k EXCEPT !.err = "YAMLError"]
        ELSE ConstructPairs(Self("ConstructObject", <<k, pairs[1][2]>>), Tail(pairs), hashed)

\* SafeConstructor.construct_mapping on the node id
ConstructMapping(c, id) ==
    LET f == Self("FlattenMapping", <<c.nodes, id, 1, <<>>>>)
    IN  IF c.nodes[id].kind # "mapping" THEN [c EXCEPT !.err = "YAMLError"]
        ELSE IF f.err # "" THEN [c EXCEPT !.err = f.err]
        ELSE ConstructPairs([c EXCEPT !.nodes = f.nodes], f.nodes[id].pairs, TRUE)

RECURSIVE ConstructOmap(_, _)
\* The loop of construct_yaml_omap, and of construct_yaml_pairs which is
\* the same.
ConstructOmap(c, items) ==
    LET sub == c.nodes[items[1]]
    IN  IF c.err # "" \/ items = <<>> THEN c
        ELSE IF sub.kind # "mapping" \/ Len(sub.pairs) # 1 THEN [c EXCEPT !.err = "YAMLError"]
        ELSE ConstructOmap(ConstructPairs(c, sub.pairs, FALSE), Tail(items))

\* What the generator of the node id does after it gave its object.
Generate(c, id) ==
    LET node == c.nodes[id]
    IN  IF node.tag = TagSeq
          THEN IF node.kind # "sequence" THEN [c EXCEPT !.err = "YAMLError"]
               ELSE ConstructSequence(c, node.items)
        ELSE IF node.tag \in {TagMap, TagSet} THEN ConstructMapping(c, id)
        ELSE IF node.kind # "sequence" THEN [c EXCEPT !.err = "YAMLError"]
        ELSE ConstructOmap(c, node.items)

RECURSIVE RunGenerators(_)
\* The loop of construct_document over state_generators.
RunGenerators(c) ==
    IF c.err # "" \/ c.generators = <<>> THEN c
    ELSE RunGenerators(Generate([c EXCEPT !.generators = Tail(@)], c.generators[1]))

\* construct_document on the node id of nodes
ConstructDocument(nodes, id) ==
    RunGenerators(Self("ConstructObject", <<[nodes |-> nodes, constructed |-> {},
                                   unhashable |-> {}, generators |-> <<>>,
                                   err |-> ""], id>>))

\* The characters the reader refuses in a text (NON_PRINTABLE, yaml/reader.py):
\* the control characters but tab, line feed and carriage return, the
\* delete character, and those above 127 it refuses.
NonPrintable ==
    {Ascii[code + 1] : code \in (0..8) \cup {11, 12} \cup (14..31) \cup {127}}
        \cup {UniControl}

\* Reader.check_printable(resp), with which the loader begins: ReaderError,
\* a YAMLError, for a text that holds a character the reader refuses.
CheckPrintable(resp) ==
    IF \E i \in 1..Len(resp) : resp[i] \in NonPrintable THEN "YAMLError" ELSE ""

\* yaml.safe_load(resp): "" where it returns, and the class of the exception
\* where it raises one ("YAMLError" for that class and those derived from it).
SafeLoad(resp) ==
    IF CheckPrintable(resp) # "" THEN CheckPrintable(resp)
    ELSE LET st == Self("GetSingleNode", <<resp, Loader @@ ParserInit @@ ComposerInit>>)
         IN  IF st.err # "" THEN st.err
             ELSE IF st.node = 0 THEN ""
             ELSE ConstructDocument(st.nodes, st.node).err

\* self.method(*args): a method of the loader, found by its name at the
\* call, as Python finds it.
Self(method, args) ==
    CASE method = "SafeLoad"                        -> SafeLoad(args[1])
      [] method = "Tokens"                          -> Tokens(args[1], args[2])
      [] method = "ComposeNode"                     -> ComposeNode(args[1], args[2])
      [] method = "ConstructObject"                 -> ConstructObject(args[1], args[2])
      [] method = "PeekEvent"                       -> PeekEvent(args[1], args[2])
      [] method = "TimestampMatch"                  -> TimestampMatch(args[1])
      [] method = "FetchMoreTokens"                 -> FetchMoreTokens(args[1], args[2])
      [] method = "ScanTagUri"                      -> ScanTagUri(args[1], args[2], args[3], args[4])
      [] method = "PyInt"                           -> PyInt(args[1], args[2])
      [] method = "PyFloat"                         -> PyFloat(args[1])
      [] method = "ScanToNextToken"                 -> ScanToNextToken(args[1], args[2])
      [] method = "ScanBlockScalarIndicators"       -> ScanBlockScalarIndicators(args[1], args[2])
      [] method = "ScanTagHandle"                   -> ScanTagHandle(args[1], args[2])
      [] method = "ParseNode"                       -> ParseNode(args[1], args[2], args[3], args[4])
      [] method = "IgnoredLine"                     -> IgnoredLine(args[1], args[2])
      [] method = "ScanPlainSpaces"                 -> ScanPlainSpaces(args[1], args[2])
      [] method = "ConstructScalar"                 -> ConstructScalar(args[1], args[2], args[3])
      [] method = "SavePossibleSimpleKey"           -> SavePossibleSimpleKey(args[1], args[2])
      [] method = "Resolve"                         -> Resolve(args[1], args[2])
      [] method = "ScanFlowScalarBreaks"            -> ScanFlowScalarBreaks(args[1], args[2], args[3])
      [] method = "GetSingleNode"                   -> GetSingleNode(args[1], args[2])
      [] method = "ConstructTimestamp"              -> ConstructTimestamp(args[1])
      [] method = "ScanFlowScalarNonSpaces"         -> ScanFlowScalarNonSpaces(args[1], args[2], args[3], args[4])
      [] method = "ConstructFloat"                  -> ConstructFloat(args[1])
      [] method = "FlattenMapping"                  -> FlattenMapping(args[1], args[2], args[3], args[4])
      [] method = "ScanBlockScalarIndentation"      -> ScanBlockScalarIndentation(args[1], args[2], args[3], args[4])
      [] method = "ProcessDirectives"               -> ProcessDirectives(args[1], args[2])
      [] method = "DigitVal"                        -> DigitVal(args[1])
      [] method = "HexDigitVal"                     -> HexDigitVal(args[1])
      [] method = "ScanBlockScalarBreaks"           -> ScanBlockScalarBreaks(args[1], args[2], args[3], args[4])
      [] method = "ScanFlowScalarSpaces"            -> ScanFlowScalarSpaces(args[1], args[2])
      [] method = "ConstructInt"                    -> ConstructInt(args[1])
      [] method = "StalePossibleSimpleKeys"         -> StalePossibleSimpleKeys(args[1], args[2])
      [] method = "LowerResp"                       -> LowerResp(args[1])


\* ---------------------------------------------------------------------
\* SendValid (chatlib/llm.py)

\* resp.lower().strip(". ") == "none"
IsNoneResp(resp) == StripResp(LowerResp(resp), {".", " "}) = <<"n", "o", "n", "e">>

\* resp[7:-3]
Slice7To3(resp) ==
    IF Len(resp) - 3 < 8 THEN <<>> ELSE SubSeq(resp, 8, Len(resp) - 3)

\* `if resp[:7] == fence: resp = resp[7:-3].strip()`: the first seven and the
\* last three characters go, whatever the last three are.
UnfenceAs(resp, fence) ==
    IF Len(resp) >= 7 /\ SubSeq(resp, 1, 7) = fence
      THEN StripResp(Slice7To3(resp), White)
      ELSE resp

\* The same for the fence of a JSON block (llm.py 127-128).
Unfence(resp) == UnfenceAs(resp, FenceJson)

\* yaml.safe_load, the function of the text it is given.
safe_load == [resp \in Seq(STRING) |-> Self("SafeLoad", <<resp>>)]

\* The texts the responses given to validate_response hand to yaml.safe_load.
LoadedTexts == {UnfenceAs(StripResp(resp, White), FenceYaml) : resp \in ValResponses}

\* yaml.safe_load on those texts, worked out once.
Loaded == [r \in LoadedTexts |-> safe_load[r]]

\* yaml.safe_load(resp), looked up where it was worked out.
YamlLoad(resp) == IF resp \in LoadedTexts THEN Loaded[resp] ELSE safe_load[resp]

\* yaml.safe_load(resp) returns.
YamlLoads(resp) == YamlLoad(resp) = ""

RECURSIVE SplitLines(_, _)
\* re.split(r'\n+', resp), cur being the line read so far.
SplitLines(resp, cur) ==
    IF resp = <<>> THEN <<cur>>
    ELSE IF resp[1] = "\n"
      THEN IF Len(resp) > 1 /\ resp[2] = "\n"
             THEN SplitLines(Tail(resp), cur)
             ELSE <<cur>> \o SplitLines(Tail(resp), <<>>)
    ELSE SplitLines(Tail(resp), Append(cur, resp[1]))

\* [r for r in resp if r]
NonEmpty(lines) == SelectSeq(lines, LAMBDA r : r # <<>>)

\* The list made of a response: its lines, each stripped of "+- ", the
\* empty ones left out.
ListOf(resp) ==
    LET lines == SplitLines(resp, <<>>)
    IN  NonEmpty([i \in 1..Len(lines) |-> StripResp(lines[i], {"+", "-", " "})])

\* A message given back to the caller of SendValid.
Value(kind, of) == [kind |-> kind, of |-> of]

\* What the yaml branch does with the text r, loaded being what
\* yaml.safe_load(r) does (llm.py 144-153).
ConvertLoaded(r, loaded) ==
    IF loaded = ""
      THEN [kind |-> "return", value |-> Value("yaml", r)]
    ELSE IF loaded = "YAMLError"
      THEN [kind |-> "retry",
            add |-> <<Dict("assistant", r),
                      Dict("user", <<"Respond with a valid YAML object.">>)>>]
      ELSE [kind |-> "raise", outcome |-> loaded, message |-> ""]

\* What one iteration of the loop does with a response that is not "none":
\* return a value, ask again after adding messages, or raise.  Of the
\* exceptions of yaml.safe_load only YAMLError is caught (llm.py 147); one
\* of another class leaves SendValid, and its message is not modelled.
Convert(type, resp) ==
    CASE type = "json" ->
            LET r == Unfence(StripResp(resp, White)) IN
            IF JsonLoads(r)
              THEN [kind |-> "return", value |-> Value("json", r)]
              ELSE [kind |-> "retry",
                    add |-> <<Dict("assistant", r),
                              Dict("user", <<"Respond with a valid JSON object. Always use double quotes.">>)>>]
      [] type = "yaml" ->
            ConvertLoaded(UnfenceAs(StripResp(resp, White), FenceYaml),
                          YamlLoad(UnfenceAs(StripResp(resp, White), FenceYaml)))
      [] type = "int" ->
            LET r == StripResp(resp, White) IN
            IF IntOf(r)
              THEN [kind |-> "return", value |-> Value("int", r)]
              ELSE [kind |-> "retry",
                    add |-> <<Dict("assistant", r),
                              Dict("user", <<"Please respond now with just the number, nothing else.">>)>>]
      [] type = "float" ->
            LET r == StripResp(resp, White) IN
            IF FloatOf(r)
              THEN [kind |-> "return", value |-> Value("float", r)]
              ELSE [kind |-> "retry",
                    add |-> <<Dict("assistant", r),
                              Dict("user", <<"Please respond now with just the number, nothing else.">>)>>]
      [] type = "bool" ->
            LET r == LowerResp(StripResp(resp, {".", ",", "!", "?", " "})) IN
            IF r \in {<<"y", "e", "s">>, <<"t", "r", "u", "e">>, <<"1">>}
              THEN [kind |-> "return", value |-> Value("bool", <<"True">>)]
            ELSE IF r \in {<<"n", "o">>, <<"f", "a", "l", "s", "e">>, <<"0">>}
              THEN [kind |-> "return", value |-> Value("bool", <<"False">>)]
              ELSE [kind |-> "retry",
                    add |-> <<Dict("assistant", r),
                              Dict("user", <<"Please respond with either \"yes\" or \"no\".">>)>>]
      [] type = "list" -> [kind |-> "return", value |-> Value("list", ListOf(resp))]
      [] type = "str" -> [kind |-> "return", value |-> Value("str", resp)]
      [] type = "function" ->
            IF resp = <<"7">>
              THEN [kind |-> "return", value |-> Value("function", resp)]
              ELSE [kind |-> "retry",
                    add |-> <<Tuple("assistant", resp), Tuple("user", <<"not a seven">>)>>]
      [] OTHER -> [kind |-> "raise", outcome |-> "ValueError",
                   message |-> "Invalid type. Choose one of: json, yaml, int, float, list, bool, str"]

\* `for _ in range(iters)`: the i-th iteration takes place.
AttemptsLeft(i, iters) == i <= iters

\* The message test_send_valid expects (test_chatlib.py line 164).
MessageOfTest == "Could not get a valid response after maximum attempts"

\* The message of the ValueError raised after the loop (line 215).
GiveUpMessage == "Could not get a valid response"

RECURSIVE SendValidLoop(_, _, _, _, _, _, _)
\* The i-th iteration of the loop once its response is converted, c being
\* what Convert makes of it.
Converted(c, i, ms, type, iters, resps, failAt, sent) ==
    CASE c.kind = "return" ->
           [outcome |-> "returned", message |-> "", value |-> c.value,
            nsend |-> Len(sent) + 1, sent |-> Append(sent, ms)]
      [] c.kind = "raise" ->
           [outcome |-> c.outcome, message |-> c.message,
            value |-> Value("none", <<>>), nsend |-> Len(sent) + 1,
            sent |-> Append(sent, ms)]
      [] c.kind = "retry" ->
           SendValidLoop(i + 1, ms \o c.add, type, iters, resps, failAt, Append(sent, ms))

\* The loop of SendValid from its i-th iteration on.  resps: what Send
\* answers, call by call; failAt: the call at which Send raises (0: never);
\* sent: the message lists given to Send so far.
SendValidLoop(i, ms, type, iters, resps, failAt, sent) ==
    IF ~AttemptsLeft(i, iters)
      THEN [outcome |-> "ValueError", message |-> GiveUpMessage,
            value |-> Value("none", <<>>), nsend |-> Len(sent), sent |-> sent]
    ELSE IF failAt = i
      THEN [outcome |-> "SendError", message |-> "",
            value |-> Value("none", <<>>), nsend |-> Len(sent) + 1, sent |-> Append(sent, ms)]
    ELSE IF IsNoneResp(resps[i])
      THEN [outcome |-> "returned", message |-> "",
            value |-> Value("None", <<>>), nsend |-> Len(sent) + 1, sent |-> Append(sent, ms)]
    ELSE Converted(Convert(type, resps[i]), i, ms, type, iters, resps, failAt, sent)

\* The loop goes on to another call of Send after this response.
AsksAgain(type, resp) ==
    ~IsNoneResp(resp) /\ Convert(type, resp).kind = "retry"

RECURSIVE Answers(_, _)
\* What Send answers in n calls, one after the other.  Send is called again
\* only after a response the loop asks again on (llm.py 118-119); what it
\* would have answered to calls that are not made is "x" throughout.
Answers(type, n) ==
    IF n = 0 THEN {<<>>}
    ELSE UNION {IF AsksAgain(type, r)
                  THEN {<<r>> \o rest : rest \in Answers(type, n - 1)}
                  ELSE {<<r>> \o [i \in 1..(n - 1) |-> <<"x">>]} : r \in Responses}

\* Nothing of chatlib.llm has run; the engine's module is as imported.
InitLLM ==
    /\ mongo = "unbound" /\ InitStores
    /\ procs = [p \in Procs |-> [pc |-> "idle"]]
    /\ llm = NoCall
    /\ txt = NoCall
    /\ convo = NoCall
    /\ asst = NoCall
    /\ ctx = NoCall

\* The call SendValid(m, type, iters) as it ended, out being what its loop
\* came to: of resps, the answers Send gave before it.
SendValidCall(m, type, iters, resps, failAt, out) ==
    [op |-> "SendValid", ms |-> m, type |-> type, iters |-> iters,
     resps |-> SubSeq(resps, 1, out.nsend - (IF out.outcome = "SendError" THEN 1 ELSE 0)),
     failAt |-> failAt, outcome |-> out.outcome,
     message |-> out.message, value |-> out.value,
     nsend |-> out.nsend, sent |-> out.sent]

\* SendValid(ms, type, iters), Send answering resps[1], resps[2], ... or
\* raising at its failAt-th call.
SendValid ==
    /\ llm = NoCall
    /\ \E m \in MsArgs, type \in Types, iters \in 0..MaxIters :
      \E resps \in Answers(type, iters), failAt \in 0..iters :
            /\ llm' = SendValidCall(m, type, iters, resps, failAt,
                                    SendValidLoop(1, transform_messages(m), type, iters,
                                                  resps, failAt, <<>>))
            /\ UNCHANGED <<mongo, exists, pinecone, embeddings, collections, nextOid, ncalls,
                           nexternal, prev, last, procs, txt, convo, asst, ctx>>

\* ---------------------------------------------------------------------
\* Send (chatlib/llm.py)

\* A list of no messages.
EmptyMessages == [form |-> "list", items |-> <<>>]

\* transform_messages reads messages[0] of anything that is not a string:
\* IndexError on a list of no messages.
TransformRaises(messages) ==
    messages.form = "list" /\ Len(messages.items) = 0

\* The models Send is asked for: its default, one more of its pricing
\* table, and one of those named in its comments.
Models == {"gpt-4o-mini", "gpt-4", "gpt-3.5-turbo"}

DefaultModel == "gpt-4o-mini"

\* The temperature Send passes on by default, in hundredths.
DefaultTemperature == 20

\* pricing, in hundredths of a dollar per million tokens (0.15 is 15).
Pricing ==
    [m \in {"gpt-4o-mini", "gpt-4o", "gpt-4", "gpt-4-turbo"} |->
        CASE m = "gpt-4o-mini" -> <<15, 60>>
          [] m = "gpt-4o"      -> <<250, 1000>>
          [] m = "gpt-4"       -> <<3000, 6000>>
          [] m = "gpt-4-turbo" -> <<1000, 3000>>]

\* pricing[model] succeeds.
Priced(model) == model \in DOMAIN Pricing

\* total_cost before its division by 1e6, in hundredths of a dollar.
TotalCost(model, inp_tok, out_tok) ==
    Pricing[model][1] * inp_tok + Pricing[model][2] * out_tok

\* The token counts of a response's usage.
Usages == {<<10, 20>>, <<0, 1>>}

Groups == {None, "g"}

SendFails == {None, "create", "insert_one"}

\* Send(messages, model=model, group=group): the requests it issued, the
\* documents it inserted into LLM_calls, and how it ended.  The backend
\* answers content with the given usage, or the call named by fail raises.
SendOutcome(messages, model, group, content, usage, fail) ==
    IF TransformRaises(messages)
      THEN [outcome |-> "IndexError", value |-> None, requests |-> <<>>, inserts |-> <<>>]
    ELSE
    LET ms  == transform_messages(messages)
        req == [model |-> model, messages |-> ms, temperature |-> DefaultTemperature]
    IN  IF Len(ms) = 0
          THEN [outcome |-> "returned", value |-> None, requests |-> <<>>, inserts |-> <<>>]
        ELSE IF fail = "create"
          THEN [outcome |-> "create", value |-> None, requests |-> <<>>, inserts |-> <<>>]
        ELSE IF ~Priced(model)
          THEN [outcome |-> "KeyError", value |-> None, requests |-> <<req>>, inserts |-> <<>>]
        ELSE IF fail = "insert_one"
          THEN [outcome |-> "insert_one", value |-> None, requests |-> <<req>>, inserts |-> <<>>]
        ELSE [outcome |-> "returned", value |-> content, requests |-> <<req>>,
              inserts |-> << [input |-> usage[1], output |-> usage[2], group |-> group,
                              cost |-> TotalCost(model, usage[1], usage[2]),
                              model |-> model] >>]

\* One call of Send.
Send ==
    /\ llm = NoCall
    /\ \E m \in MsArgs \cup {EmptyMessages}, model \in Models, group \in Groups,
          content \in {<<"7">>, <<"x">>}, usage \in Usages, fail \in SendFails :
        LET out == SendOutcome(m, model, group, content, usage, fail)
        IN  /\ llm' = [op |-> "Send", ms |-> m, model |-> model, group |-> group,
                       content |-> content, usage |-> usage, fail |-> fail,
                       outcome |-> out.outcome, value |-> out.value,
                       requests |-> out.requests, inserts |-> out.inserts]
            /\ UNCHANGED <<mongo, exists, pinecone, embeddings, collections, nextOid, ncalls,
                           nexternal, prev, last, procs, txt, convo, asst, ctx>>

\* ---------------------------------------------------------------------
\* validate_response (chatlib/utils.py)

\* Type specifications: the seven names, a name that is none of them, a
\* function (it returns 7 for "7" and raises ValueError("not a seven")
\* otherwise), and a callable that is not a function.
ValTypes == {"json", "yaml", "int", "float", "bool", "list", "str", "bogus",
             "function", "callable"}

IsStrType(type) == type \notin {"function", "callable"}

IsFunctionType(type) == type = "function"

\* raise ValidError(message)
RaiseValidError(message) == [outcome |-> "ValidError", message |-> message]

\* raise ValueError(message)
RaiseValueError(message) == [outcome |-> "ValueError", message |-> message]

\* An exception of yaml.safe_load that is no YAMLError is not caught
\* (utils.py 70); its message is not modelled.
Uncaught(class) == [outcome |-> class, message |-> ""]

\* return value
Return(value) == [outcome |-> "returned", value |-> value]

\* What the yaml branch of validate_response does with the text r, loaded
\* being what yaml.safe_load(r) does (utils.py 66-72).
ValidatedLoaded(r, loaded) ==
    IF loaded = "" THEN Return(Value("yaml", r))
    ELSE IF loaded = "YAMLError" THEN RaiseValidError("Invalid YAML response")
    ELSE Uncaught(loaded)

\* validate_response(resp, type)
validate_response(resp, type) ==
    IF StripResp(LowerResp(resp), {".", " "}) = <<"n", "o", "n", "e">>
      THEN Return(Value("NoneType", <<>>))
    ELSE IF IsStrType(type) THEN
      LET r == StripResp(resp, White) IN
      CASE type = "json" ->
              IF JsonLoads(UnfenceAs(r, FenceJson))
                THEN Return(Value("json", UnfenceAs(r, FenceJson)))
                ELSE RaiseValidError("Invalid JSON response")
        [] type = "yaml" ->
              ValidatedLoaded(UnfenceAs(r, FenceYaml), YamlLoad(UnfenceAs(r, FenceYaml)))
        [] type = "int" ->
              IF IntOf(r) THEN Return(Value("int", r))
                          ELSE RaiseValidError("Invalid integer response")
        [] type = "float" ->
              IF FloatOf(r) THEN Return(Value("float", r))
                            ELSE RaiseValidError("Invalid float response")
        [] type = "bool" ->
              LET b == LowerResp(StripResp(r, {".", ",", "!", "?", " "})) IN
              IF b \in {<<"y", "e", "s">>, <<"t", "r", "u", "e">>, <<"1">>} THEN Return(Value("bool", <<"True">>))
              ELSE IF b \in {<<"n", "o">>, <<"f", "a", "l", "s", "e">>, <<"0">>} THEN Return(Value("bool", <<"False">>))
              ELSE RaiseValidError("Invalid boolean response")
        [] type = "list" -> Return(Value("list", ListOf(r)))
        [] type = "str" -> Return(Value("str", r))
        [] OTHER ->
              RaiseValueError("Invalid type. Choose one of: json, yaml, int, float, list, bool, str")
    ELSE IF IsFunctionType(type) THEN
      IF resp = <<"7">> THEN Return(Value("function", resp))
                        ELSE RaiseValidError("not a seven")
    ELSE RaiseValueError("Invalid type specification")

\* One call of validate_response.
ValidateResponse ==
    /\ llm = NoCall
    /\ \E resp \in ValResponses, type \in ValTypes :
         llm' = [op |-> "validate_response", resp |-> resp, type |-> type,
                 out |-> validate_response(resp, type)]
    /\ UNCHANGED <<mongo, exists, pinecone, embeddings, collections, nextOid, ncalls, nexternal,
                   prev, last, procs, txt, convo, asst, ctx>>

\* ---------------------------------------------------------------------
\* transform_messages (chatlib/utils.py, and its copy in chatlib/llm.py)

\* The messages given to transform_messages: a string, lists of tuples,
\* lists of dictionaries, lists of both, and a list of no messages.
TransformArgs ==
    MsArgs \cup
    {EmptyMessages,
     [form |-> "str", text |-> <<>>],
     [form |-> "list", items |-> <<Tuple("user", <<"hi">>)>>],
     [form |-> "list", items |-> <<Dict("user", <<"hi">>), Dict("assistant", <<"x">>)>>],
     [form |-> "list", items |-> <<Tuple("user", <<"hi">>), Dict("assistant", <<"x">>)>>],
     [form |-> "list", items |-> <<Dict("user", <<"hi">>), Tuple("assistant", <<"x">>)>>]}

\* transform_messages(messages): what it returns, or the exception it raises.
TransformMessagesOutcome(messages) ==
    IF TransformRaises(messages)
      THEN [outcome |-> "IndexError", value |-> <<>>]
      ELSE [outcome |-> "returned", value |-> transform_messages(messages)]

\* One call of transform_messages.
TransformMessages ==
    /\ llm = NoCall
    /\ \E m \in TransformArgs :
         llm' = [op |-> "transform_messages", ms |-> m, out |-> TransformMessagesOutcome(m)]
    /\ UNCHANGED <<mongo, exists, pinecone, embeddings, collections, nextOid, ncalls, nexternal,
                   prev, last, procs, txt, convo, asst, ctx>>

NextLLM == SendValid \/ Send \/ ValidateResponse \/ TransformMessages

SpecLLM == InitLLM /\ [][NextLLM]_vars

\* ---------------------------------------------------------------------
\* Actors (chatlib/convo.py)

MaxActorOps == 4

\* Actor and two subclasses of it.
Classes == {"Actor", "CustomActor", "TemporaryActor"}

\* The names of the attributes given to actors.
Keys == {"name", "type"}

AttrValues == {"x", "Actor"}

\* A dictionary over Keys: Absent marks a key the dictionary does not have.
Absent == "<absent>"

EmptyDict == [k \in Keys |-> Absent]

\* d[k] = v
SetKey(d, k, v) == [d EXCEPT ![k] = v]

\* The document after update_one(.., {'$set': fields}).
DollarSet(data, fields) ==
    [k \in Keys |-> IF fields[k] # Absent THEN fields[k] ELSE data[k]]

\* update_one({'_id': id}, {'$set': fields}) on a collection: nothing matches
\* when no document has the id.
UpdateOne(coll, id, fields) ==
    {IF d._id = id THEN [d EXCEPT !.data = DollarSet(d.data, fields)] ELSE d : d \in coll}

\* register_actor(actor_class): the registry is keyed by class name.
register_actor(registry, actor_class) == registry \cup {actor_class}

\* Actor.__init__(can_leave, **kwargs), kwargs carrying the attributes attrs
\* and, when given is not Nothing, '_id'.
ActorInit(cls, can_leave, given, attrs) ==
    [cls |-> cls, can_leave |-> can_leave, _id |-> given, _data |-> attrs]

\* Actor.__setitem__(name, value) on the handle.
ActorSetItem(c, name, value) ==
    [c EXCEPT !.h._data = SetKey(c.h._data, name, value),
              !.actors = IF c.h._id # Nothing
                           THEN UpdateOne(c.actors, c.h._id[1], SetKey(EmptyDict, name, value))
                         ELSE c.actors]

\* Actor.save() on the handle; it returns the handle's _id.
ActorSave(c) ==
    IF c.h._id = Nothing
      THEN [c EXCEPT !.actors = c.actors \cup
                         {[_id |-> c.next, data |-> SetKey(c.h._data, "type", c.h.cls)]},
                     !.h._id = Some(c.next),
                     !.next = c.next + 1]
    ELSE [c EXCEPT !.actors = UpdateOne(c.actors, c.h._id[1], c.h._data)]

NotRegistered == "not found in registry"

\* Actor.load that builds the class it was called on, whatever type is stored.
ActorLoadAsCalled(cls, registry, actors, id, can_leave) ==
    IF \A d \in actors : d._id # id
      THEN [outcome |-> "None"]
    ELSE LET _find == CHOOSE d \in actors : d._id = id
         IN  [outcome |-> "returned",
              actor |-> [cls |-> cls, can_leave |-> can_leave, _id |-> Some(id),
                         _data |-> _find.data]]

\* cls.load(id, can_leave), id an ObjectId or the string of one.
ActorLoad(cls, registry, actors, id, can_leave) ==
    IF \A d \in actors : d._id # id
      THEN [outcome |-> "None"]
    ELSE LET _find == CHOOSE d \in actors : d._id = id
             typed == _find.data["type"] # Absent
         IN  IF typed /\ _find.data["type"] \notin registry
               THEN [outcome |-> "ValueError", message |-> NotRegistered,
                     type |-> _find.data["type"]]
             ELSE [outcome |-> "returned",
                   actor |-> [cls |-> IF typed THEN _find.data["type"] ELSE cls,
                              can_leave |-> can_leave, _id |-> Some(id),
                              _data |-> _find.data]]

NoHandle == [cls |-> "none"]

\* The actors collection holds a document saved for a TemporaryActor by a
\* program that had registered the class, and one written without a type.
SeedActors ==
    {[_id |-> 1, data |-> [k \in Keys |-> IF k = "type" THEN "TemporaryActor" ELSE "x"]],
     [_id |-> 2, data |-> [k \in Keys |-> IF k = "name" THEN "x" ELSE Absent]]}

\* The identifier of no document of the actors collection.
StrayActor == 9

\* chatlib.convo as imported: the decorator on Actor has registered it.
InitActors ==
    /\ mongo = "unbound" /\ InitStores
    /\ procs = [p \in Procs |-> [pc |-> "idle"]]
    /\ llm = NoCall /\ txt = NoCall /\ asst = NoCall /\ ctx = NoCall
    /\ convo = [registry |-> register_actor({}, "Actor"), actors |-> SeedActors, next |-> 3,
                h |-> NoHandle, last |-> NoCall, before |-> NoCall, n |-> 0]

ConvoFrame ==
    UNCHANGED <<mongo, exists, pinecone, embeddings, collections, nextOid, ncalls, nexternal,
                prev, last, procs, llm, txt, asst, ctx>>

\* The convo after one more call, filed as the last one.
Filed(c, call) ==
    [c EXCEPT !.before = convo.last, !.last = call, !.n = convo.n + 1]

\* @register_actor on the definition of a subclass.
RegisterActor ==
    /\ convo.n < MaxActorOps
    /\ \E cls \in Classes \ {"Actor"} :
         convo' = Filed([convo EXCEPT !.registry = register_actor(convo.registry, cls)],
                        [op |-> "register_actor", cls |-> cls])
    /\ ConvoFrame

\* The attributes an actor is constructed with.
Kwargs ==
    {EmptyDict, SetKey(EmptyDict, "name", "x"), SetKey(EmptyDict, "type", "x")}

\* handle = cls(can_leave=.., **kwargs)
NewActor ==
    /\ convo.n < MaxActorOps /\ convo.h = NoHandle
    /\ \E cls \in Classes, can_leave \in BOOLEAN, given \in {Nothing, Some(StrayActor)},
          attrs \in Kwargs :
         convo' = Filed([convo EXCEPT !.h = ActorInit(cls, can_leave, given, attrs)],
                        [op |-> "Actor", cls |-> cls])
    /\ ConvoFrame

\* handle[name] = value
SetItem ==
    /\ convo.n < MaxActorOps /\ convo.h # NoHandle
    /\ \E name \in Keys, value \in AttrValues :
         convo' = Filed(ActorSetItem(convo, name, value),
                        [op |-> "setitem", name |-> name, value |-> value])
    /\ ConvoFrame

\* handle.save()
Save ==
    /\ convo.n < MaxActorOps /\ convo.h # NoHandle
    /\ LET c == ActorSave(convo)
       IN  convo' = Filed(c, [op |-> "save", id |-> c.h._id[1], cls |-> c.h.cls,
                              data |-> c.h._data, first |-> convo.h._id = Nothing])
    /\ ConvoFrame

\* Actor.load(id), the id given as an ObjectId or as its string; when the
\* program holds no handle yet it may keep the actor loaded as its handle.
Load ==
    /\ convo.n < MaxActorOps
    /\ \E id \in {d._id : d \in convo.actors} \cup {StrayActor},
          asStr \in BOOLEAN, keep \in BOOLEAN :
         LET oid == IF asStr THEN ObjectIdOfStr(Str(id)) ELSE id
             out == ActorLoad("Actor", convo.registry, convo.actors, oid, TRUE)
         IN  /\ keep => (convo.h = NoHandle /\ out.outcome = "returned")
             /\ convo' = Filed([convo EXCEPT !.h = IF keep THEN out.actor ELSE convo.h],
                               [op |-> "load", id |-> id, out |-> out])
    /\ ConvoFrame

NextActors == RegisterActor \/ NewActor \/ SetItem \/ Save \/ Load

SpecActors == InitActors /\ [][NextActors]_vars

\* ---------------------------------------------------------------------
\* Assistant.complete (chatlib/tools.py)

\* The requires_action steps one run goes through at most.
MaxRounds == 2

\* The names tool_fns has a function for: echo returns the text "ok", log
\* writes a line and returns None.
ToolFns == {"echo", "log"}

\* What the function registered under the name returns.
Returns(name) == IF name = "echo" THEN "ok" ELSE None

\* if output:
OutputTruthy(output) == output \notin {None, ""}

ToolCall(id, name) == [id |-> id, name |-> name]

\* The tool calls a requires_action step may list; ghost names no function.
ToolCallLists ==
    {<<ToolCall("c1", "echo")>>, <<ToolCall("c1", "log")>>,
     <<ToolCall("c1", "echo"), ToolCall("c2", "echo")>>,
     <<ToolCall("c1", "echo"), ToolCall("c2", "log")>>,
     <<ToolCall("c1", "ghost")>>}

\* The statuses of a run _wait_for_run_completion returns on.
Awaited == {"completed", "failed", "requires_action"}

\* The statuses a run does not leave.
Settled == {"completed", "failed", "cancelled", "expired", "incomplete"}

RECURSIVE ToolOutputs(_, _, _)
\* The loop of _submit_tool_outputs over tools_to_call: the calls whose
\* function was invoked, the tool_output_array, and whether tool_fns had no
\* function for a name (KeyError).
ToolOutputs(tools_to_call, invoked, tool_output_array) ==
    IF tools_to_call = <<>>
      THEN [invoked |-> invoked, outputs |-> tool_output_array, raised |-> FALSE]
    ELSE LET tool == Head(tools_to_call) IN
         IF tool.name \notin ToolFns
           THEN [invoked |-> invoked, outputs |-> tool_output_array, raised |-> TRUE]
         ELSE LET output == Returns(tool.name) IN
              ToolOutputs(Tail(tools_to_call), Append(invoked, tool.id),
                          IF OutputTruthy(output)
                            THEN Append(tool_output_array,
                                        [tool_call_id |-> tool.id, output |-> output])
                            ELSE tool_output_array)

NoRun == [status |-> "none", calls |-> <<>>]

\* The calls of Thread.say made on the thread at most.
MaxSays == 2

\* Thread.say(role, query): the message appended to the thread's history
\* and posted to the service, which keeps its messages newest first, as
\* messages.list answers them.  posted is whether messages.create returned.
ThreadSay(a, role, query, posted) ==
    [a EXCEPT !.messages = Append(a.messages, [role |-> role, text |-> query]),
              !.server = IF posted THEN <<[role |-> role, text |-> query]>> \o a.server
                         ELSE a.server,
              !.says = a.says + 1]

\* An initialized Assistant on a new Thread: no run, no message in the
\* history nor on the service.
InitAsst ==
    /\ mongo = "unbound" /\ InitStores
    /\ procs = [p \in Procs |-> [pc |-> "idle"]]
    /\ llm = NoCall /\ txt = NoCall /\ convo = NoCall /\ ctx = NoCall
    /\ asst = [pc |-> "idle", run |-> NoRun, nruns |-> 0, rounds |-> 0,
               polls |-> 0, waits |-> <<>>, submits |-> <<>>, server |-> <<>>,
               messages |-> <<>>, value |-> None, says |-> 0]

AsstFrame ==
    UNCHANGED <<mongo, exists, pinecone, embeddings, collections, nextOid, ncalls, nexternal,
                prev, last, procs, llm, txt, convo, ctx>>

\* thread.say(role, query), thread.user_say(query), thread.system_say(query),
\* called while complete() is not running.  The service refuses a message
\* only while a run of the thread is active.
SayOnThread ==
    /\ asst.pc \in {"idle", "returned", "raised"} /\ asst.says < MaxSays
    /\ \E role \in {"user", "system"}, posted \in BOOLEAN :
         /\ ~posted => asst.run.status \in {"queued", "in_progress", "requires_action"}
         /\ asst' = ThreadSay(asst, role, "q", posted)
    /\ AsstFrame

\* complete(): runs.create
CompleteCreate ==
    /\ asst.pc = "idle"
    /\ asst' = [asst EXCEPT !.pc = "wait", !.nruns = asst.nruns + 1,
                            !.run = [status |-> "queued", calls |-> <<>>]]
    /\ AsstFrame

\* _wait_for_run_completion: one sleep and runs.retrieve; the loop ends on an
\* awaited status and goes round again on any other (polls is the parity of
\* the rounds made so far).
WaitForRunCompletion ==
    /\ asst.pc = "wait"
    /\ asst' = IF asst.run.status \in Awaited
                 THEN [asst EXCEPT !.pc = IF asst.run.status = "requires_action"
                                            THEN "submit" ELSE "list",
                                   !.waits = Append(asst.waits, asst.run.status)]
                 ELSE [asst EXCEPT !.polls = 1 - asst.polls]
    /\ AsstFrame

\* _submit_tool_outputs(run.id, tool_calls): the functions are invoked and
\* the outputs submitted.  The service takes the run up again, or rejects
\* the submission when the run has expired meanwhile or an output is missing.
SubmitToolOutputs ==
    /\ asst.pc = "submit"
    /\ LET out == ToolOutputs(asst.run.calls, <<>>, <<>>)
           step == [calls |-> asst.run.calls, invoked |-> out.invoked,
                    outputs |-> out.outputs, submitted |-> ~out.raised]
       IN  IF out.raised
             THEN asst' = [asst EXCEPT !.pc = "raised",
                                       !.submits = Append(asst.submits, step)]
           ELSE \E accepted \in BOOLEAN :
                  /\ accepted => asst.run.status = "requires_action"
                  /\ ~accepted => \/ asst.run.status # "requires_action"
                                  \/ Len(out.outputs) < Len(asst.run.calls)
                  /\ asst' = [asst EXCEPT
                                 !.pc = IF accepted THEN "wait" ELSE "raised",
                                 !.run = IF accepted
                                           THEN [status |-> "queued", calls |-> <<>>]
                                           ELSE asst.run,
                                 !.submits = Append(asst.submits, step)]
    /\ AsstFrame

\* complete(): messages.list; the first message is appended to the thread's
\* history and its text returned (None when the thread has no message).
CompleteReturn ==
    /\ asst.pc = "list"
    /\ asst' = IF asst.server = <<>>
                 THEN [asst EXCEPT !.pc = "returned"]
                 ELSE [asst EXCEPT !.pc = "returned",
                                   !.messages = Append(asst.messages, asst.server[1]),
                                   !.value = asst.server[1].text]
    /\ AsstFrame

\* The service works on the run: a queued run starts, is cancelled or
\* expires; a run in progress asks for tool calls, completes with a message
\* of the assistant, or ends failed, incomplete or expired; a run waiting
\* for tool outputs expires.
RunAdvance ==
    /\ asst.run.status \in {"queued", "in_progress", "requires_action"}
    /\ \/ /\ asst.run.status = "queued"
          /\ \E s \in {"in_progress", "cancelled", "expired"} :
               asst' = [asst EXCEPT !.run.status = s]
       \/ /\ asst.run.status = "in_progress"
          /\ \/ /\ asst.rounds < MaxRounds
                /\ \E calls \in ToolCallLists :
                     asst' = [asst EXCEPT !.run = [status |-> "requires_action",
                                                   calls |-> calls],
                                          !.rounds = asst.rounds + 1]
             \/ asst' = [asst EXCEPT
                            !.run.status = "completed",
                            !.server = <<[role |-> "assistant", text |-> "a"]>> \o asst.server]
             \/ \E s \in {"failed", "incomplete", "expired"} :
                  asst' = [asst EXCEPT !.run.status = s]
       \/ /\ asst.run.status = "requires_action"
          /\ asst' = [asst EXCEPT !.run.status = "expired"]
    /\ AsstFrame

NextAsst ==
    \/ SayOnThread
    \/ CompleteCreate
    \/ WaitForRunCompletion
    \/ SubmitToolOutputs
    \/ CompleteReturn
    \/ RunAdvance

SpecAsst == InitAsst /\ [][NextAsst]_vars

\* The Assistant keeps running and the service keeps working on the run.
SpecAsstFair ==
    /\ SpecAsst
    /\ WF_vars(CompleteCreate \/ WaitForRunCompletion \/ SubmitToolOutputs \/ CompleteReturn)
    /\ WF_vars(RunAdvance)

\* ---------------------------------------------------------------------
\* Assistant.add_tool (chatlib/tools.py)

\* The add_tool calls made on one Assistant at most.
MaxTools == 2

\* A dictionary as a set of key/value entries; d[k] = v replaces the entry of k.
DictPut(d, k, v) == {e \in d : e.key # k} \cup {[key |-> k, value |-> v]}

\* A tool dictionary {"name": .., "description": .., "parameters": ..}.
ToolDict(name) == [name |-> name, description |-> "d", parameters |-> "{}"]

\* add_tool(*args, name, description, parameters, function): the tool appended
\* to self.tools and the entry written to self.tool_fns.  nargs is the number
\* of positional arguments, tool the first of them.
add_tool(a, nargs, tool, name, function) ==
    [a EXCEPT !.tools = Append(a.tools, IF nargs = 1 THEN tool ELSE ToolDict(name)),
              !.tool_fns = DictPut(a.tool_fns, name, function)]

\* fn = self.tool_fns[function_name]
ToolFnLookup(tool_fns, function_name) ==
    IF \E e \in tool_fns : e.key = function_name
      THEN [outcome |-> "found",
            fn |-> (CHOOSE e \in tool_fns : e.key = function_name).value]
      ELSE [outcome |-> "KeyError", fn |-> None]

\* A new Assistant: no tools, no functions.
InitTools ==
    /\ mongo = "unbound" /\ InitStores
    /\ procs = [p \in Procs |-> [pc |-> "idle"]]
    /\ llm = NoCall /\ txt = NoCall /\ convo = NoCall /\ ctx = NoCall
    /\ asst = [pc |-> "tools", tools |-> <<>>, tool_fns |-> {}, added |-> <<>>,
               last |-> NoCall]

\* The ways add_tool is called with a function: the tool dictionary alone,
\* the dictionary and the name, or the components by keyword.
AddToolForms == {"dict", "dict+name", "keywords"}

\* assistant.add_tool(.., function=fn)
AddTool ==
    /\ asst.pc = "tools" /\ Len(asst.added) < MaxTools
    /\ \E form \in AddToolForms, tool \in {"echo", "log"}, fn \in {"f", "g"} :
         LET a == add_tool(asst,
                           IF form = "keywords" THEN 0 ELSE 1,
                           ToolDict(tool),
                           IF form = "dict" THEN None ELSE tool,
                           fn)
         IN  asst' = [a EXCEPT !.added = Append(asst.added,
                                            [form |-> form, tool |-> tool, fn |-> fn]),
                               !.last = [op |-> "add_tool"]]
    /\ AsstFrame

\* A run requests a call of the tool named name: the lookup of
\* _submit_tool_outputs.
Dispatch ==
    /\ asst.pc = "tools"
    /\ \E name \in {"echo", "log"} :
         asst' = [asst EXCEPT !.last = [op |-> "dispatch", name |-> name,
                                        out |-> ToolFnLookup(asst.tool_fns, name)]]
    /\ AsstFrame

NextTools == AddTool \/ Dispatch

SpecTools == InitTools /\ [][NextTools]_vars

\* ------------------------------------------------------------------------
\* Conversation and ConversationSlice (convo.py 144-326): a conversation
\* document in convos, its messages in messages, and the in-memory history m.
\* ------------------------------------------------------------------------

MaxConvoOps == 4

\* An ObjectId and its string form, str(ObjectId).
Oid(n) == [oid |-> n]
StrId(x) == [hex |-> IF "oid" \in DOMAIN x THEN x.oid ELSE x.hex]

Handles == {"a", "b"}
Roles == {"user", "assistant"}
Said == {"p", "q"}
NoObj == [m |-> <<>>, _id |-> <<>>, made |-> FALSE]

\* Conversation.__init__: an empty history and no id.
ConversationInit == [m |-> <<>>, _id |-> <<>>, made |-> TRUE]

\* Conversation.save: insert_one({'finished': False}) and take the inserted id.
ConversationSave(db, c) ==
    [db |-> [db EXCEPT !.convos = db.convos \cup {Oid(db.next)}, !.next = db.next + 1],
     c |-> [c EXCEPT !._id = <<Oid(db.next)>>],
     value |-> StrId(Oid(db.next))]

\* say's test before the first message: if self._id is None.
NeedsSave(c) == c._id = <<>>

\* Conversation.say from the message it has built (lines 241-247) with the
\* reading now of the clock: messages.insert_one and the append to self.m
\* (lines 249-254).
SayInsert(db, c, role, message, now) ==
    LET obj == [convo |-> c._id[1], role |-> role, message |-> message,
                when_server |-> now, _id |-> Oid(db.next)]
        mem == [obj EXCEPT !._id = StrId(obj._id), !.convo = StrId(obj.convo)]
    IN  [db |-> [db EXCEPT !.messages = Append(db.messages, obj), !.next = db.next + 1],
         c |-> [c EXCEPT !.m = Append(c.m, mem)]]

\* Conversation.delete, line 223: convos.delete_one({'_id': self._id}).
DeleteOne(db, c) == [db EXCEPT !.convos = {d \in db.convos : <<d>> # c._id}]

\* Conversation.delete, line 224: messages.delete_many({'convo': self._id}).
DeleteMany(db, c) ==
    [db EXCEPT !.messages = SelectSeq(db.messages, LAMBDA d : <<d.convo>> # c._id)]

\* sorted(.., key=when_server): a stable insertion sort.
RECURSIVE SortedByWhen(_)
SortedByWhen(s) ==
    IF s = <<>> THEN <<>>
    ELSE LET r == SortedByWhen(SubSeq(s, 1, Len(s) - 1))
             x == s[Len(s)]
             n == Cardinality({i \in 1..Len(r) : r[i].when_server <= x.when_server})
         IN  SubSeq(r, 1, n) \o <<x>> \o SubSeq(r, n + 1, Len(r))

\* Conversation.load, lines 181-186: the id as an ObjectId, and whether
\* convos.find_one finds the conversation document.
FindConvo(db, id) == StrId(id) \in {StrId(d) : d \in db.convos}

\* Conversation.load, lines 188-193: the object made of messages.find, sorted.
FindMessages(db, id) ==
    [m |-> SortedByWhen(SelectSeq(db.messages, LAMBDA d : d.convo = Oid(StrId(id).hex))),
     _id |-> <<Oid(StrId(id).hex)>>, made |-> TRUE]

\* Conversation.load(_id) with both reads made of one value of the database:
\* None when the conversation document is missing.
ConversationLoad(db, id) ==
    IF ~FindConvo(db, id)
    THEN [found |-> FALSE, c |-> NoObj]
    ELSE [found |-> TRUE, c |-> FindMessages(db, id)]

\* The slice s[:e] of Python.
SliceTo(s, e) ==
    LET stop == IF e < 0 THEN (IF Len(s) + e < 0 THEN 0 ELSE Len(s) + e)
                ELSE (IF e > Len(s) THEN Len(s) ELSE e)
    IN  SubSeq(s, 1, stop)

\* ConversationSlice.load after super().load(_id) has answered C (lines
\* 314-326): message_end is omitted, an integer, or a message id given as a
\* string or an ObjectId.
SliceCut(C, end) ==
    LET m == C.c.m
    IN  IF ~C.found THEN [outcome |-> "AttributeError", m |-> <<>>]
        ELSE IF end.kind = "None"
        THEN [outcome |-> "AttributeError", m |-> <<>>]
        ELSE IF end.kind = "int"
        THEN [outcome |-> "returned",
              m |-> SliceTo(m, IF end.n < 0 THEN Len(m) + end.n ELSE end.n)]
        ELSE LET mi == {i \in 1..Len(m) : StrId(m[i]._id) = StrId(end.id)}
             IN  IF mi = {} THEN [outcome |-> "IndexError", m |-> <<>>]
                 ELSE [outcome |-> "returned",
                       m |-> SliceTo(m, CHOOSE i \in mi : \A j \in mi : i <= j)]

ConvoDb == [convos |-> convo.convos, messages |-> convo.messages, next |-> convo.next]

\* No Conversation object, an empty database, and no caller inside a call.
\* Every handle has one caller; calls[h] is the call that caller is inside.
InitConvo ==
    /\ mongo = "unbound" /\ InitStores
    /\ procs = [p \in Procs |-> [pc |-> "idle"]]
    /\ llm = NoCall /\ txt = NoCall /\ asst = NoCall /\ ctx = NoCall
    /\ convo = [convos |-> {}, messages |-> <<>>, next |-> 1,
                objs |-> [h \in Handles |-> NoObj],
                calls |-> [h \in Handles |-> NoCall], log |-> <<>>, last |-> NoCall]

\* The callers inside a call.
Running == {h \in Handles : convo.calls[h].op # "none"}

\* The caller of h is outside any call, and one more call may begin.
MayCall(h) ==
    /\ convo.calls[h].op = "none"
    /\ Len(convo.log) + Cardinality(Running) < MaxConvoOps

\* A database call, or a reading of the clock, of the caller of h after which
\* its call goes on.
ConvoBegin(db, objs, h, call) ==
    /\ convo' = [convos |-> db.convos, messages |-> db.messages, next |-> db.next,
                 objs |-> objs, calls |-> [convo.calls EXCEPT ![h] = call],
                 log |-> convo.log, last |-> [op |-> "running", h |-> h]]
    /\ ConvoFrame

\* The step on which the call of the caller of h returns or raises: the
\* call is filed in the log.
ConvoStep(db, objs, h, call) ==
    /\ convo' = [convos |-> db.convos, messages |-> db.messages, next |-> db.next,
                 objs |-> objs, calls |-> [convo.calls EXCEPT ![h] = NoCall],
                 log |-> Append(convo.log, call), last |-> call]
    /\ ConvoFrame

\* c = Conversation()
NewConversation ==
    \E h \in Handles :
        /\ MayCall(h)
        /\ ~convo.objs[h].made
        /\ ConvoStep(ConvoDb, [convo.objs EXCEPT ![h] = ConversationInit], h,
                     [op |-> "new", h |-> h])

\* The readings of the clock, dt.now(): the local time of the machine,
\* without time zone.  Nothing ties a reading to the one before: the local
\* time is set back at the end of daylight saving time and whenever the
\* clock is adjusted.
Clock == {0, 1}

\* c.say(role, message) up to and including its first look outside: the
\* insert_one of save() on an object without id (line 239), the reading of
\* the clock (line 245) otherwise.
Say ==
    \E h \in Handles, role \in Roles, message \in Said :
        /\ MayCall(h)
        /\ convo.objs[h].made
        /\ LET call == [op |-> "say", h |-> h, role |-> role, message |-> message]
           IN  IF NeedsSave(convo.objs[h])
                 THEN LET r == ConversationSave(ConvoDb, convo.objs[h])
                      IN  ConvoBegin(r.db, [convo.objs EXCEPT ![h] = r.c], h,
                                     [pc |-> "saved"] @@ call)
                 ELSE \E now \in Clock :
                        ConvoBegin(ConvoDb, convo.objs, h,
                                   [pc |-> "built", when_server |-> now] @@ call)

\* c.say(role, message) after its save(): the reading of the clock (line 245).
SayAfterSave ==
    \E h \in Handles, now \in Clock :
        /\ convo.calls[h].op = "say"
        /\ convo.calls[h].pc = "saved"
        /\ ConvoBegin(ConvoDb, convo.objs, h,
                      [pc |-> "built", when_server |-> now] @@ convo.calls[h])

\* c.say(role, message) from the message it has built: messages.insert_one
\* (line 249) and the return.
SayReturn ==
    \E h \in Handles :
        /\ convo.calls[h].op = "say"
        /\ convo.calls[h].pc = "built"
        /\ LET call == convo.calls[h]
               r == SayInsert(ConvoDb, convo.objs[h], call.role, call.message,
                              call.when_server)
           IN  ConvoStep(r.db, [convo.objs EXCEPT ![h] = r.c], h,
                         [op |-> "say", h |-> h, role |-> call.role,
                          message |-> call.message])

\* c.save()
SaveConversation ==
    \E h \in Handles :
        /\ MayCall(h)
        /\ convo.objs[h].made
        /\ LET r == ConversationSave(ConvoDb, convo.objs[h])
           IN  ConvoStep(r.db, [convo.objs EXCEPT ![h] = r.c], h,
                         [op |-> "save", h |-> h, value |-> r.value])

\* c.delete() up to and including convos.delete_one.
DeleteConversation ==
    \E h \in Handles :
        /\ MayCall(h)
        /\ convo.objs[h].made
        /\ ConvoBegin(DeleteOne(ConvoDb, convo.objs[h]), convo.objs, h,
                      [op |-> "delete", h |-> h])

\* c.delete() from there: messages.delete_many and the return.
DeleteMessages ==
    \E h \in Handles :
        /\ convo.calls[h].op = "delete"
        /\ ConvoStep(DeleteMany(ConvoDb, convo.objs[h]), convo.objs, h,
                     convo.calls[h])

\* c = Conversation.load(_id), the id given as an ObjectId or as a string, up
\* to and including convos.find_one: None is returned when it finds nothing.
LoadConversation ==
    \E h \in Handles, n \in 1..(convo.next - 1), str \in BOOLEAN :
        /\ MayCall(h)
        /\ ~convo.objs[h].made
        /\ LET id == IF str THEN StrId(Oid(n)) ELSE Oid(n)
               call == [op |-> "load", h |-> h, id |-> id, found |-> FindConvo(ConvoDb, id)]
           IN  IF call.found
                 THEN ConvoBegin(ConvoDb, convo.objs, h, call)
                 ELSE ConvoStep(ConvoDb, convo.objs, h, call)

\* Conversation.load from there: messages.find, the sort and the return.
LoadMessages ==
    \E h \in Handles :
        /\ convo.calls[h].op = "load"
        /\ ConvoStep(ConvoDb,
                     [convo.objs EXCEPT ![h] = FindMessages(ConvoDb, convo.calls[h].id)],
                     h, convo.calls[h])

SliceEnds ==
    {[kind |-> "None"]}
    \cup {[kind |-> "int", n |-> n] : n \in (0 - 2)..2}
    \cup {[kind |-> "id", id |-> id] :
            id \in UNION {{Oid(n), StrId(Oid(n))} : n \in 1..(convo.next - 1)}}

\* ConversationSlice.load(_id, message_end) by the caller of h, up to and
\* including the convos.find_one of Conversation.load: when it finds nothing,
\* C is None and the call raises AttributeError.
LoadSlice ==
    \E h \in Handles, n \in 1..(convo.next - 1), end \in SliceEnds :
        /\ MayCall(h)
        /\ LET call == [op |-> "slice", h |-> h, id |-> Oid(n), end |-> end,
                        out |-> SliceCut([found |-> FALSE, c |-> NoObj], end)]
           IN  IF FindConvo(ConvoDb, Oid(n))
                 THEN ConvoBegin(ConvoDb, convo.objs, h, call)
                 ELSE ConvoStep(ConvoDb, convo.objs, h, call)

\* ConversationSlice.load from there: messages.find, the sort, the cut and
\* the return.
LoadSliceMessages ==
    \E h \in Handles :
        /\ convo.calls[h].op = "slice"
        /\ LET call == convo.calls[h]
               C == [found |-> TRUE, c |-> FindMessages(ConvoDb, call.id)]
           IN  ConvoStep(ConvoDb, convo.objs, h,
                         [call EXCEPT !.out = SliceCut(C, call.end)])

NextConvo ==
    \/ NewConversation \/ Say \/ SayAfterSave \/ SayReturn \/ SaveConversation
    \/ DeleteConversation \/ DeleteMessages
    \/ LoadConversation \/ LoadMessages \/ LoadSlice \/ LoadSliceMessages

SpecConvo == InitConvo /\ [][NextConvo]_vars

\* ------------------------------------------------------------------------
\* Context (context.py 3-25): clean ids 1, 2, ... for the ids of documents.
\* ------------------------------------------------------------------------

MaxIdCalls == 4

\* The texts of ids: two that are the hexadecimal string of an ObjectId and
\* one that is not.
HexTexts == {"5f1a", "5f1b"}
IdTexts == HexTexts \cup {"note"}

\* An argument of clean_id: an ObjectId or a string.
IdArgs ==
    {[type |-> "ObjectId", s |-> s] : s \in HexTexts}
    \cup {[type |-> "str", s |-> s] : s \in IdTexts}

\* Context.__init__
ContextInit == [id_map |-> << >>, id_map_r |-> << >>, id_map_counter |-> 1]

\* if isinstance(id, ObjectId): id = str(id)
IdKey(id) == [type |-> "str", s |-> id.s]

KnownNever(c, key) == FALSE

\* The test of clean_id: the id is in id_map.
Known(c, key) == key \in DOMAIN c.id_map

\* Context.clean_id(id): the context after the call and the number returned.
clean_id(c, id) ==
    LET key == IdKey(id)
        c2 == IF ~Known(c, key)
              THEN [id_map |-> (key :> c.id_map_counter) @@ c.id_map,
                    id_map_r |-> (c.id_map_counter :> key) @@ c.id_map_r,
                    id_map_counter |-> c.id_map_counter + 1]
              ELSE c
    IN  [c |-> c2, value |-> c2.id_map[key]]

\* Context.messy_id(clean_id): ObjectId(id_map_r[int(clean_id)]); the ObjectId
\* constructor raises InvalidId for a string that is not hexadecimal.
messy_id(c, clean) ==
    IF clean \notin DOMAIN c.id_map_r
      THEN [outcome |-> "KeyError", value |-> [type |-> "none", s |-> ""]]
    ELSE IF c.id_map_r[clean].s \notin HexTexts
      THEN [outcome |-> "InvalidId", value |-> [type |-> "none", s |-> ""]]
    ELSE [outcome |-> "returned", value |-> [type |-> "ObjectId", s |-> c.id_map_r[clean].s]]

InitContext ==
    /\ mongo = "unbound" /\ InitStores
    /\ procs = [p \in Procs |-> [pc |-> "idle"]]
    /\ llm = NoCall /\ txt = NoCall /\ convo = NoCall /\ asst = NoCall
    /\ ctx = [c |-> ContextInit, calls |-> <<>>, last |-> NoCall]

CtxFrame ==
    UNCHANGED <<mongo, exists, pinecone, embeddings, collections, nextOid, ncalls, nexternal,
                prev, last, procs, llm, txt, convo, asst>>

\* context.clean_id(id)
CleanId ==
    /\ Len(ctx.calls) < MaxIdCalls
    /\ \E id \in IdArgs :
         LET r == clean_id(ctx.c, id)
         IN  ctx' = [c |-> r.c, calls |-> Append(ctx.calls, id),
                     last |-> [op |-> "clean_id", id |-> id, value |-> r.value,
                               before |-> ctx.c]]
    /\ CtxFrame

\* context.messy_id(n) for a number n handed out so far, or the next one.
MessyId ==
    /\ \E n \in 1..ctx.c.id_map_counter :
         ctx' = [ctx EXCEPT !.last = [op |-> "messy_id", clean |-> n,
                                      out |-> messy_id(ctx.c, n)]]
    /\ CtxFrame

NextContext == CleanId \/ MessyId

SpecContext == InitContext /\ [][NextContext]_vars

\* ------------------------------------------------------------------------
\* One caller repeating one search (vectors.py 119-170).  Documents, records
\* and entries may have been deleted from outside before the first search;
\* nothing else runs afterwards, and no backend call fails.
\* ------------------------------------------------------------------------

\* The stores drift before the first search only.
DriftBefore ==
    /\ last.op # "search"
    /\ (ExternalDeleteDoc \/ ExternalDeleteRecord \/ ExternalDeleteVector)

\* The arguments of the repeated search: those of the search before.
SameSearch(c) ==
    last.op = "search"
    => /\ c.arg = last.arg /\ c.ns = last.ns /\ c.k = last.k
       /\ c.filter = last.filter /\ c.cutoff = last.cutoff

\* Embedding(vector=c.arg).search(c.ns, c.k, c.filter, c.cutoff), once more:
\* the index is queried anew.  rep tells one repetition from the next.
RepeatSearch ==
    \E c \in SearchCalls :
        /\ c.fail = None
        /\ SameSearch(c)
        /\ LET self == EmbeddingInit(c.arg) IN
           \E matches \in SearchResponses(self, c.ns, c.k, c.filter, c.fail, pinecone) :
             LET out == SearchOutcome(self, c.ns, c.cutoff, c.fail, matches, mongo,
                                      pinecone, embeddings, collections)
             IN  /\ pinecone' = out.index
                 /\ last' = [op |-> "search", arg |-> c.arg, vector |-> self, ns |-> c.ns,
                             k |-> c.k, filter |-> c.filter, cutoff |-> c.cutoff,
                             fail |-> c.fail, matches |-> matches, outcome |-> out.outcome,
                             result |-> out.result, lost |-> out.lost, calls |-> out.calls,
                             rep |-> IF last.op = "search" THEN 1 - last.rep ELSE 0]
                 /\ prev' = Remember(last)
                 /\ UNCHANGED <<mongo, exists, embeddings, collections, nextOid, ncalls,
                                nexternal, elsewhere>>

NextRepeat == DriftBefore \/ RepeatSearch

SpecRepeat == Init /\ [][NextRepeat]_vars

\* The caller goes on repeating the search.
SpecRepeatFair == SpecRepeat /\ WF_vars(RepeatSearch)

\* ------------------------------------------------------------------------
\* One caller searching with one vector, namespace, k and filter at one
\* cutoff after another (vectors.py 119-170), nothing else running
\* meanwhile and no backend call failing.
\* ------------------------------------------------------------------------

\* The query of the search: that of the search before.
SameQuery(c) ==
    last.op = "search"
    => /\ c.arg = last.arg /\ c.ns = last.ns /\ c.k = last.k /\ c.filter = last.filter

\* Embedding(vector=c.arg).search(c.ns, c.k, c.filter, c.cutoff) with a
\* vector; the search before is kept in prev.
SearchAtCutoff ==
    \E c \in SearchCalls :
        /\ c.fail = None
        /\ Truthy(EmbeddingInit(c.arg))
        /\ SameQuery(c)
        /\ LET self == EmbeddingInit(c.arg) IN
           \E matches \in SearchResponses(self, c.ns, c.k, c.filter, c.fail, pinecone) :
             LET out == SearchOutcome(self, c.ns, c.cutoff, c.fail, matches, mongo,
                                      pinecone, embeddings, collections)
             IN  /\ pinecone' = out.index
                 /\ last' = [op |-> "search", arg |-> c.arg, vector |-> self, ns |-> c.ns,
                             k |-> c.k, filter |-> c.filter, cutoff |-> c.cutoff,
                             fail |-> c.fail, matches |-> matches, outcome |-> out.outcome,
                             result |-> out.result, lost |-> out.lost, calls |-> out.calls,
                             index |-> pinecone]
                 /\ prev' = IF last.op = "search" THEN last ELSE NoCall
                 /\ UNCHANGED <<mongo, exists, embeddings, collections, nextOid, ncalls,
                                nexternal, elsewhere>>

NextCutoffs == DriftBefore \/ SearchAtCutoff

SpecCutoffs == Init /\ [][NextCutoffs]_vars

Validates(i) ==
    \/ IsNoneResp(llm.resps[i])
    \/ Convert(llm.type, llm.resps[i]).kind = "return"

\* C19: SendValid, called with a supported type, calls Send at most iters
\* times; when it returns, the response of its last call is the first that
\* validates; and when Send never raises and no response validates, it raises
\* ValueError after exactly iters calls.
C19_AtMostItersSends ==
    (llm.op = "SendValid" /\ llm.type \in SupportedTypes) =>
        /\ llm.nsend <= llm.iters
        /\ llm.outcome = "returned" =>
              /\ llm.nsend >= 1
              /\ Validates(llm.nsend)
              /\ \A j \in 1..(llm.nsend - 1) : ~Validates(j)
              /\ ~IsNoneResp(llm.resps[llm.nsend]) =>
                    llm.value = Convert(llm.type, llm.resps[llm.nsend]).value
        /\ (llm.failAt = 0 /\ \A j \in 1..Len(llm.resps) : ~Validates(j)) =>
              /\ llm.outcome = "ValueError"
              /\ llm.nsend = llm.iters

\* C20: the ValueError SendValid raises when none of its iters attempts got a
\* valid response carries the message
\* "Could not get a valid response after maximum attempts".
C20_GiveUpMessage ==
    ( /\ llm.op = "SendValid" /\ llm.type \in SupportedTypes
      /\ llm.outcome = "ValueError" /\ llm.nsend = llm.iters
      /\ \A j \in 1..Len(llm.resps) : ~Validates(j) )
    => llm.message = MessageOfTest

\* C21: every chat-completion request Send issued and got an answer to is
\* followed, before Send returns the response content, by exactly one insert
\* into LLM_calls carrying the response's prompt and completion token
\* counts, the model name and the group; no request goes unrecorded
\* (the backends not failing).
C21_EveryRequestRecorded ==
    (llm.op = "Send" /\ llm.fail = None) =>
        /\ Len(llm.inserts) = Len(llm.requests)
        /\ \A i \in 1..Len(llm.requests) :
              /\ llm.inserts[i].input = llm.usage[1]
              /\ llm.inserts[i].output = llm.usage[2]
              /\ llm.inserts[i].model = llm.requests[i].model
              /\ llm.inserts[i].group = llm.group
        /\ (llm.outcome = "returned" /\ llm.requests # <<>>) => Len(llm.inserts) = 1

\* The stored document with the given id.
ActorDoc(id) == CHOOSE d \in convo.actors : d._id = id

\* C22: saving an actor of a registered class and then calling Actor.load
\* with the id save returned yields an instance of the same class whose data
\* has every attribute, with its value, that the actor had when it was saved.
C22_SaveLoadRoundTrip ==
    ( /\ convo.last.op = "load" /\ convo.before.op = "save"
      /\ convo.last.id = convo.before.id
      /\ convo.before.cls \in convo.registry )
    => /\ convo.last.out.outcome = "returned"
       /\ convo.last.out.actor.cls = convo.before.cls
       /\ \A k \in Keys : convo.before.data[k] # Absent =>
              convo.last.out.actor._data[k] = convo.before.data[k]

\* C23: Actor.load resolves the stored type name through the registry: it
\* returns an instance of the class registered under that name, and raises
\* ValueError saying the type is not found in the registry, returning no
\* actor, when the name is not registered; register_actor registers a class
\* under its name and the base Actor is always registered.
C23_LoadThroughRegistry ==
    /\ "Actor" \in convo.registry
    /\ convo.last.op = "register_actor" => convo.last.cls \in convo.registry
    /\ ( /\ convo.last.op = "load"
         /\ \E d \in convo.actors : d._id = convo.last.id /\ d.data["type"] # Absent )
       => LET type == ActorDoc(convo.last.id).data["type"]
          IN  IF type \in convo.registry
                THEN /\ convo.last.out.outcome = "returned"
                     /\ convo.last.out.actor.cls = type
              ELSE /\ convo.last.out.outcome = "ValueError"
                   /\ convo.last.out.message = NotRegistered

\* Actor.load raised ValueError for the document of an unregistered
\* TemporaryActor, a subclass having been registered before.
C23_Witness ==
    /\ convo.last.op = "load" /\ convo.last.id = 1
    /\ convo.last.out.outcome = "ValueError"
    /\ convo.before.op = "register_actor" /\ "CustomActor" \in convo.registry

\* C24: for the actor handle, once it has an id, after any sequence of
\* attribute assignments and save calls a fresh Actor.load of its id
\* returns, for every key, the last value assigned through the handle.
C24_LastAssignedLoaded ==
    ( /\ convo.h # NoHandle /\ convo.last.op \in {"save", "setitem"}
      /\ convo.h._id # Nothing
      /\ convo.h.cls \in convo.registry )
    => LET out == ActorLoad("Actor", convo.registry, convo.actors, convo.h._id[1], TRUE)
       IN  /\ out.outcome = "returned"
           /\ \A k \in Keys : convo.h._data[k] # Absent =>
                  out.actor._data[k] = convo.h._data[k]

\* The types whose conversion can fail.
Recognised == {"json", "yaml", "int", "float", "bool", "function"}

\* The responses that stand for no answer.
NoneResponses == {<<"N", "o", "n", "e", ".">>, <<"n", "o", "n", "e">>}

\* The responses that are a valid value of each recognised type, as
\* json.loads, yaml.safe_load, int, float and the function take them.
ValidResponses(type) ==
    CASE type = "json" ->
           {<<"{", "}">>, <<"7">>, <<" ", "7">>,
            <<Tick, Tick, Tick, "j", "s", "o", "n", "\n", "{", "}", "\n", Tick, Tick, Tick>>,
            <<"3", ".", "1", "4">>, <<"7", "\n">>,
            <<Tick, Tick, Tick, "j", "s", "o", "n", "{", "}", Tick, Tick, Tick>>, <<"4", "2">>,
            <<"1", "e", "3">>, <<"{", " ", "}">>,
            <<"{", "\"", "k", "e", "y", "\"", ":", " ", "\"", "v", "a", "l", "u", "e", "\"", "}">>,
            <<Tick, Tick, Tick, "j", "s", "o", "n", "\n", "{", "\"", "k", "e", "y", "\"", ":", " ", "\"", "v", "a", "l", "u", "e", "\"", "}", "\n", Tick, Tick, Tick>>}
      [] type = "yaml" ->
           {<<"{", "}">>, <<"7">>, <<" ", "7">>, <<"Y", "e", "s", ".">>, <<"x">>, <<" ", "x">>,
            <<"3", ".", "1", "4">>, <<"k", ":", " ", "v">>,
            <<Tick, Tick, Tick, "y", "a", "m", "l", "\n", "k", ":", " ", "v", "\n", Tick, Tick, Tick>>,
            <<"n", "o", "!">>, <<>>, <<"7", "\n">>, <<"4", "2">>, <<"1", "e", "3">>,
            <<"n", "a", "n">>, <<"{", " ", "}">>, <<"m", "a", "y", "b", "e">>,
            <<"{", "\"", "k", "e", "y", "\"", ":", " ", "\"", "v", "a", "l", "u", "e", "\"", "}">>,
            <<"k", "e", "y", ":", " ", "v", "a", "l", "u", "e">>}
      [] type = "int" ->
           {<<"7">>, <<" ", "7">>, <<"7", "\n">>, <<"4", "2">>}
      [] type = "float" ->
           {<<"7">>, <<" ", "7">>, <<"3", ".", "1", "4">>, <<"7", "\n">>, <<"4", "2">>,
            <<"1", "e", "3">>, <<"n", "a", "n">>}
      [] type = "bool" ->
           {<<"Y", "e", "s", ".">>, <<"n", "o", "!">>}
      [] type = "function" -> {<<"7">>}
      [] OTHER -> ValResponses

\* C25: validate_response reports every validation failure of a recognised
\* type (json, yaml, int, float, bool, or a custom function that raises
\* ValueError) as ValidError, raises ValueError only for an unrecognised type
\* specification, and otherwise returns the converted value.
C25_ValidErrorOrValue ==
    llm.op = "validate_response" =>
        LET known == llm.type \in Recognised \cup {"list", "str"}
            none  == llm.resp \in NoneResponses
            valid == llm.resp \in ValidResponses(llm.type)
        IN  /\ (llm.type \in Recognised /\ ~none /\ ~valid) => llm.out.outcome = "ValidError"
            /\ llm.out.outcome = "ValueError" => ~known
            /\ (known /\ (none \/ valid)) =>
                  /\ llm.out.outcome = "returned"
                  /\ llm.out.value.kind = IF none THEN "NoneType" ELSE llm.type
            /\ (llm.type = "list" /\ llm.resp = <<"-", " ", "x", "\n", "\n", "+", "7">>) =>
                  llm.out.value.of = << <<"x">>, <<"7">> >>

\* Every item of the list is of the given kind.
AllOfKind(items, kind) == \A i \in 1..Len(items) : items[i].kind = kind

\* C26: transform_messages maps a string to a single user message, maps a
\* list of (role, content) tuples to the list of role/content dictionaries
\* in the same order and of the same length, and returns a list of
\* dictionaries unchanged.
C26_ThreeForms ==
    llm.op = "transform_messages" =>
        /\ llm.ms.form = "str" =>
              /\ llm.out.outcome = "returned"
              /\ llm.out.value = <<Dict("user", llm.ms.text)>>
        /\ (llm.ms.form = "list" /\ AllOfKind(llm.ms.items, "tuple")) =>
              /\ llm.out.outcome = "returned"
              /\ Len(llm.out.value) = Len(llm.ms.items)
              /\ \A i \in 1..Len(llm.ms.items) :
                    llm.out.value[i] = Dict(llm.ms.items[i].role, llm.ms.items[i].content)
        /\ (llm.ms.form = "list" /\ AllOfKind(llm.ms.items, "dict")) =>
              /\ llm.out.outcome = "returned"
              /\ llm.out.value = llm.ms.items

\* C28: each search with a vector, no backend call of which fails,
\* partitions its matches above the cutoff into resolved and lost: the number
\* of documents it returns plus the number of entries it deletes from the
\* index is the number of matches scoring above the cutoff, which is at most
\* k; and it returns one document per resolving match, so a document owning
\* several matching entries appears once per entry.
C28_ResolvedPlusLost ==
    [][ (last'.op = "search" /\ Truthy(last'.vector) /\ last'.fail = None) =>
          LET above == {i \in 1..Len(last'.matches) : last'.matches[i].score > last'.cutoff}
          IN  /\ pinecone' \subseteq pinecone
              /\ Len(last'.result) + Cardinality(pinecone \ pinecone') = Cardinality(above)
              /\ Cardinality(above) <= last'.k
              /\ Len(last'.result) =
                    Cardinality({i \in above : Resolves(last'.matches[i])})
      ]_vars

\* C29: Assistant.complete creates one run, then alternates waiting and
\* tool-output submission: it submits tool outputs once for every wait that
\* ended in requires_action, returns the latest thread message only after a
\* wait ended in completed or failed, and terminates whenever the run
\* eventually stops changing status.
C29_CompleteTerminates ==
    /\ [](/\ asst.nruns <= 1
          /\ asst.pc # "idle" => asst.nruns = 1
          /\ \A i \in 1..Len(asst.waits) - 1 : asst.waits[i] = "requires_action"
          /\ asst.pc \in {"wait", "list", "returned"} =>
                Len(asst.submits) =
                   Cardinality({i \in 1..Len(asst.waits) : asst.waits[i] = "requires_action"})
          /\ asst.pc = "returned" =>
                /\ asst.waits # <<>>
                /\ asst.waits[Len(asst.waits)] \in {"completed", "failed"})
    /\ [][(asst.pc = "list" /\ asst'.pc = "returned" /\ asst.server # <<>>) =>
              asst'.value = asst.server[1].text]_vars
    /\ (asst.run.status \in Settled) ~> (asst.pc \in {"returned", "raised"})

\* C30: for every tool call listed in a requires_action step whose name has
\* a registered function, the Assistant invokes that function exactly once
\* and the single submit for the step contains exactly one output carrying
\* the call's tool_call_id.
C30_OneOutputPerCall ==
    \A s \in 1..Len(asst.submits) :
        LET step == asst.submits[s] IN
        (\A i \in 1..Len(step.calls) : step.calls[i].name \in ToolFns) =>
            /\ step.submitted
            /\ \A i \in 1..Len(step.calls) :
                  /\ Cardinality({j \in 1..Len(step.invoked) :
                                     step.invoked[j] = step.calls[i].id}) = 1
                  /\ Cardinality({j \in 1..Len(step.outputs) :
                                     step.outputs[j].tool_call_id = step.calls[i].id}) = 1

\* The add_tool calls that named the tool, in the order they were made.
AddedAs(name) == SelectSeq(asst.added, LAMBDA c : c.tool = name)

\* C31: every tool added with add_tool together with a function, as a single
\* tool dictionary or as name/description/parameters components, is
\* dispatched to that function (the one last added for it) when a run
\* requests a tool call by the tool's name.
C31_AddedToolDispatched ==
    (asst.last.op = "dispatch" /\ AddedAs(asst.last.name) # <<>>) =>
        /\ asst.last.out.outcome = "found"
        /\ asst.last.out.fn = AddedAs(asst.last.name)[Len(AddedAs(asst.last.name))].fn

\* The full time-ordered history of the conversation the last slice was taken of.
FullHistory == ConversationLoad(ConvoDb, convo.last.id).c.m

\* C32: ConversationSlice.load returns a prefix of the full time-ordered
\* history: all of it when message_end is omitted, the first n messages for
\* an integer n >= 0, the first len+n for a negative n, and the messages up
\* to and including the given one for a message id.
C32_SliceIsPrefix ==
    (/\ convo.last.op = "slice"
     /\ ConversationLoad(ConvoDb, convo.last.id).found)
    => LET end == convo.last.end
           out == convo.last.out
           full == FullHistory
       IN  /\ end.kind = "None"
               => out.outcome = "returned" /\ out.m = full
           /\ (end.kind = "int" /\ end.n >= 0 /\ end.n <= Len(full))
               => out.outcome = "returned" /\ out.m = SubSeq(full, 1, end.n)
           /\ (end.kind = "int" /\ end.n < 0 /\ Len(full) + end.n >= 0)
               => out.outcome = "returned" /\ out.m = SubSeq(full, 1, Len(full) + end.n)
           /\ \A i \in 1..Len(full) :
                (end.kind = "id" /\ StrId(end.id) = StrId(full[i]._id))
                => out.outcome = "returned" /\ out.m = SubSeq(full, 1, i)

\* The calls so far are c = Conversation() on handle h followed by say calls
\* on c only, at least one, and every one of them has returned.
OnlySaid(h) ==
    /\ Running = {}
    /\ Len(convo.log) >= 2
    /\ convo.log[1].op = "new" /\ convo.log[1].h = h
    /\ \A i \in 2..Len(convo.log) : convo.log[i].op = "say" /\ convo.log[i].h = h

\* C33: after n say calls on a new Conversation object exactly one
\* conversation document and n message documents exist for it, and
\* Conversation.load of its id returns those n messages in the order said.
C33_SayThenLoad ==
    \A h \in Handles :
        OnlySaid(h)
        => LET c == convo.objs[h]
               n == Len(convo.log) - 1
               loaded == ConversationLoad(ConvoDb, c._id[1])
           IN  /\ convo.convos = {c._id[1]}
               /\ Len(SelectSeq(convo.messages, LAMBDA d : d.convo = c._id[1])) = n
               /\ Len(convo.messages) = n
               /\ loaded.found
               /\ Len(loaded.c.m) = n
               /\ \A i \in 1..n :
                    /\ loaded.c.m[i].role = convo.log[i + 1].role
                    /\ loaded.c.m[i].message = convo.log[i + 1].message
                    /\ StrId(loaded.c.m[i]._id) = c.m[i]._id

\* The calls so far are c = Conversation() on handle h followed by say and
\* save calls on c only, and every one of them has returned.
OnlySaidOrSaved(h) ==
    /\ Running = {}
    /\ Len(convo.log) >= 1
    /\ convo.log[1].op = "new" /\ convo.log[1].h = h
    /\ \A i \in 2..Len(convo.log) :
         convo.log[i].op \in {"say", "save"} /\ convo.log[i].h = h

\* C38: after any sequence of say and save calls on one Conversation object
\* every message of its in-memory history belongs to the object's current
\* conversation id.
C38_HistoryBelongsToId ==
    \A h \in Handles :
        OnlySaidOrSaved(h)
        => \A i \in 1..Len(convo.objs[h].m) :
             /\ convo.objs[h]._id # <<>>
             /\ convo.objs[h].m[i].convo = StrId(convo.objs[h]._id[1])

\* The calls so far are made on Conversation objects created by
\* Conversation() and are say, save and delete calls, all of which have
\* returned.
OnlySaidSavedDeleted ==
    /\ Running = {}
    /\ \A i \in 1..Len(convo.log) : convo.log[i].op \in {"new", "say", "save", "delete"}

\* C39: after any sequence of say, save and delete calls on Conversation
\* objects every message document of the messages collection refers to a
\* conversation document that exists.
C39_NoOrphanMessage ==
    OnlySaidSavedDeleted
    => \A i \in 1..Len(convo.messages) : convo.messages[i].convo \in convo.convos

\* C37: at every Send call made by SendValid, for every supported type and
\* for a custom validation function, the message list holds only
\* role/content dictionaries and is the original messages followed by one
\* (assistant, user) pair per failed attempt.
C37_SentListsWellFormed ==
    (llm.op = "SendValid" /\ llm.type \in SupportedTypes \cup {"function"})
    => \A j \in 1..Len(llm.sent) :
         LET orig == transform_messages(llm.ms)
             sent == llm.sent[j]
         IN  /\ Len(sent) = Len(orig) + 2 * (j - 1)
             /\ SubSeq(sent, 1, Len(orig)) = orig
             /\ \A i \in 1..Len(sent) : sent[i].kind = "dict"
             /\ \A a \in 1..(j - 1) :
                  /\ sent[Len(orig) + 2 * a - 1].role = "assistant"
                  /\ sent[Len(orig) + 2 * a].role = "user"

\* C34: Send given an empty message list returns None, issues no
\* chat-completion request and writes no cost record.
C34_SendNothing ==
    (llm.op = "Send" /\ llm.ms = EmptyMessages)
    => /\ llm.outcome = "returned"
       /\ llm.value = None
       /\ llm.requests = <<>>
       /\ llm.inserts = <<>>

\* C36: clean_text is idempotent: cleaning a cleaned text does not change it.
C36_CleanTextIdempotent ==
    txt.op = "recleaned" => txt.again = txt.output

\* The keys of the first n clean_id calls.
KeysOf(n) == {IdKey(ctx.calls[i]) : i \in 1..n}

\* The call at which the key first appeared.
FirstCall(key) ==
    CHOOSE i \in 1..Len(ctx.calls) :
        IdKey(ctx.calls[i]) = key /\ \A j \in 1..(i - 1) : IdKey(ctx.calls[j]) # key

\* An ObjectId y denotes the id x: x is that ObjectId or its string.
Denotes(y, x) == y.type = "ObjectId" /\ y.s = x.s

\* After the clean_id calls made so far id_map and id_map_r are mutually
\* inverse, the clean ids are exactly 1..n in order of first appearance with
\* id_map_counter = n+1, and a repeated clean_id of a known id returned the
\* same number without changing state.
Numbered ==
    LET c == ctx.c
        n == Cardinality(KeysOf(Len(ctx.calls)))
    IN  /\ DOMAIN c.id_map = KeysOf(Len(ctx.calls))
        /\ DOMAIN c.id_map_r = 1..n
        /\ c.id_map_counter = n + 1
        /\ \A k \in DOMAIN c.id_map : c.id_map_r[c.id_map[k]] = k
        /\ \A i \in DOMAIN c.id_map_r : c.id_map[c.id_map_r[i]] = i
        /\ \A k \in DOMAIN c.id_map :
             c.id_map[k] = Cardinality(KeysOf(FirstCall(k)))
        /\ (ctx.last.op = "clean_id" /\ IdKey(ctx.last.id) \in DOMAIN ctx.last.before.id_map)
             => /\ c = ctx.last.before
                /\ ctx.last.value = ctx.last.before.id_map[IdKey(ctx.last.id)]

\* messy_id(clean_id(x)) denotes x, and clean_id(x) leaves the context of
\* an id already cleaned as it is.
RoundTrips(x) ==
    LET r == clean_id(ctx.c, x)
        y == messy_id(r.c, r.value)
    IN  r.c = ctx.c /\ y.outcome = "returned" /\ Denotes(y.value, x)

\* The last call was messy_id of a clean id handed out, and it returned an
\* ObjectId that denotes the id cleaned.
MessyIdDenotes ==
    /\ ctx.last.out.outcome = "returned"
    /\ Denotes(ctx.last.out.value, ctx.c.id_map_r[ctx.last.clean])

\* C40 as claimed: after any sequence of clean_id calls id_map and id_map_r
\* are mutually inverse, the clean ids are exactly 1..n in order of first
\* appearance with id_map_counter = n+1, a repeated clean_id of a known id
\* returns the same number without changing state, and for every id x
\* cleaned messy_id(clean_id(x)) denotes x.
C40_AnyIdRoundTrips ==
    /\ Numbered
    /\ \A i \in 1..Len(ctx.calls) : RoundTrips(ctx.calls[i])
    /\ (ctx.last.op = "messy_id" /\ ctx.last.clean \in DOMAIN ctx.c.id_map_r)
         => MessyIdDenotes

\* C40, amended: after any sequence of clean_id calls id_map and id_map_r are
\* mutually inverse, the clean ids are exactly 1..n in order of first
\* appearance with id_map_counter = n+1, a repeated clean_id of a known id
\* returns the same number without changing state, and messy_id(clean_id(x))
\* denotes x for every id x that is an ObjectId or the hexadecimal string of
\* one.
C40_CleanIdsNumbered ==
    /\ Numbered
    /\ \A i \in 1..Len(ctx.calls) :
          ctx.calls[i].s \in HexTexts => RoundTrips(ctx.calls[i])
    /\ (ctx.last.op = "messy_id" /\ ctx.last.clean \in DOMAIN ctx.c.id_map_r
        /\ ctx.c.id_map_r[ctx.last.clean].s \in HexTexts)
         => MessyIdDenotes

\* Three ids were cleaned, one of them twice (as an ObjectId and as its
\* string), and messy_id gave back the ObjectId of the second clean id.
C40_Witness ==
    /\ Len(ctx.calls) = 4
    /\ ctx.c.id_map_counter = 4
    /\ \E i, j \in 1..4 : i < j /\ ctx.calls[i].type = "ObjectId"
                          /\ ctx.calls[j] = IdKey(ctx.calls[i])
    /\ ctx.last.op = "messy_id" /\ ctx.last.clean = 2
    /\ ctx.last.out.outcome = "returned"

\* The last search deleted nothing.
DeletedNothing == last.op = "search" /\ last.lost = <<>>

\* C35: with no concurrent operation and no backend failure, repeating the
\* same search reaches after finitely many repetitions a search that deletes
\* nothing, and from then on every repetition of a search with a vector
\* returns the same list and leaves the VectorIndex unchanged.
C35_RepeatedSearchSettles ==
    /\ <>DeletedNothing
    /\ [][(DeletedNothing /\ Truthy(last.vector))
            => /\ last'.op = "search"
               /\ last.outcome = "returned"
               /\ last'.outcome = "returned"
               /\ last'.result = last.result
               /\ last'.lost = <<>>
               /\ pinecone' = pinecone]_vars

=============================================================================
